---- MODULE Spec2Model ----
\* Model of demo.Parse (src/internal/demo/parser.go, the revision that starts
\* at line 568): the event handlers registered on the demoinfocs parser and the
\* ParseNextFrame loop that samples player-position frames.
EXTENDS Integers, Sequences, FiniteSets, TLC

\* ---------------------------------------------------------------- bounds ---
MaxId       == 2     \* SteamID64 values are 0..MaxId (0 = a bot's id)
LongSteps   == 9     \* decoder frames of the long recording (SpecFrames)
LongRounds  == 1     \* RoundStart events of the long recording
MaxRoster   == 1     \* ids 0..MaxRoster connect and play
ShortSteps  == 2     \* decoder frames of the short recording (Spec)
ShortRounds == 2     \* RoundStart events of the short recordings
MaxEvents   == 1     \* combat events of the short recording
DamageSteps == 1     \* decoder frames of the damage recording (SpecDamage)
MaxDamage   == 3     \* kill and damage events of the damage recording
MatchSteps  == 2     \* decoder frames of the match recording (SpecMatch)
MatchRounds == 3     \* RoundStart events of the match recording
EarlySteps  == 2     \* decoder frames of the grenade recording (SpecEarlier)
OpenSteps   == 10    \* decoder frames of the recording that ends in a round
EarlyEvents == 2     \* grenade events of the grenade recording
MaxEntity   == 1     \* grenade entity and inferno ids are 1..MaxEntity
MaxTraj     == 200   \* samples of the longest projectile trajectory
ShotEvents  == 3     \* weapon-fired events of the shooting recording (SpecShots)
ShotSteps   == 3     \* decoder frames of the shooting recording
ShotRounds  == 2     \* RoundStart events of the shooting recording
BombActs    == 3     \* bomb events of the bomb recording (SpecBomb)
BombSteps   == 1     \* decoder frames of the bomb recording
BombRounds  == 2     \* RoundStart events of the bomb recording
CanvasHalf  == 2     \* canvas.width / 2 of the viewer's canvas, in pixels
MaxZoomExp  == 2     \* the zoom levels are 1, 2, .. 2^MaxZoomExp
MaxDrag     == 2     \* pixels one drag moves the map on an axis
YawFrac     == 4     \* framePos takes the fractions 0, 1/YawFrac, .. 1
FeedKills   == 5     \* kills of the round the viewer plays (SpecFeed)
FeedBombs   == 3     \* bomb actions of that round
FeedNades   == 3     \* grenades of that round
FeedSteps   == 6     \* currentTick runs over 0 .. FeedSteps * TickStep
MaxFiles    == 6     \* output files of earlier runs that outDir may hold

\* ------------------------------------------------------- program constants -
SampleTicks == 16
MinFrames   == 5
KILL_FEED_MAX == 8

\* ------------------------------------------------------------- the decoder -
Nil     == -1                      \* a nil *common.Player
Ids     == 0 .. MaxId              \* SteamID64 of the players of the match
Players == Ids \cup {Nil}          \* what an event's player field may hold
TickStep   == SampleTicks \div 2   \* tick advance of one decoder step
NilWeapon  == "<nil>"              \* a nil events.Kill.Weapon
WeaponVals == {NilWeapon, "AK-47"} \* events.Kill.Weapon, by its Type.String()
Bombsites  == {65, 66}             \* events.Bombsite: 'A', 'B'
DamageVals == {30, 70}             \* events.PlayerHurt.HealthDamage
WinnerVals == {"CT", "T", "Draw"}  \* events.RoundEnd.Winner: CT, T, another
EntityIds  == 1 .. MaxEntity       \* GrenadeEntityID, Inferno.UniqueID()
EquipmentVals == {"EqSmoke", "EqFlash", "EqHE", "EqMolotov", "EqIncendiary",
                  "EqDecoy"}       \* common.EquipmentType of a projectile
TrajLens   == {1, 2, MaxTraj}      \* len(Projectile.Trajectory2)

VARIABLES
    pc,             \* "loop": before ParseNextFrame; "parse": inside it;
                    \* "done": Parse returned data; "failed": it returned an error
    tick,           \* p.GameState().IngameTick()
    fullPacket,     \* the current decoder step repeated the previous tick
    warmup,         \* p.GameState().IsWarmupPeriod()
    playing,        \* ids in p.GameState().Participants().Playing()
    events,         \* combat events the recording still holds
    hurtLog,        \* events.PlayerHurt dispatched since the last round began
    lastEvent,      \* the combat or RoundStart event the decoder dispatched last
    roundLog,       \* the RoundStart and RoundEnd events dispatched so far:
                    \* RoundStart events, is a round open, round-ends of an
                    \* open round by winner, the tick of the last of them
    returned,       \* what Parse has returned, NotReturned while it runs
    data,           \* *DemoData
    pidx,           \* steamID64 -> Players index
    cur,            \* *Round, NilRound when nil
    inRound,
    roundNum,
    freezeEndTick,
    ctScore, tScore,
    lastShot,       \* playerIdx -> last shot tick
    roundVicDmg,    \* attIdx -> vicIdx -> accumulated hp damage this round
    bombX, bombY, bombSite,
    activeSmokes,   \* entityID -> smokeEntry (earlier revision)
    pendingInfernos, \* uniqueID -> pendingInfernoData (earlier revision)
    main,           \* processDemoFile of cmd/demoview: its position, its
                    \* inputs and the output file
    viewer          \* the state of the HTML viewer's script

decoderVars == <<pc, tick, fullPacket, warmup, playing, events, hurtLog>>
parseVars   == <<data, pidx, cur, inRound, roundNum, freezeEndTick, ctScore,
                 tScore, lastShot, roundVicDmg, bombX, bombY, bombSite>>
pendingVars == <<activeSmokes, pendingInfernos>>
parserVars  == <<pc, tick, fullPacket, warmup, playing, events, hurtLog,
                 lastEvent, roundLog, returned,
                 data, pidx, cur, inRound, roundNum, freezeEndTick, ctScore,
                 tScore, lastShot, roundVicDmg, bombX, bombY, bombSite,
                 activeSmokes, pendingInfernos>>
frontVars   == <<main, viewer>>
vars        == <<pc, tick, fullPacket, warmup, playing, events, hurtLog,
                 lastEvent, roundLog, returned,
                 data, pidx, cur, inRound, roundNum, freezeEndTick, ctScore,
                 tScore, lastShot, roundVicDmg, bombX, bombY, bombSite,
                 activeSmokes, pendingInfernos,
                 main, viewer>>

\* ------------------------------------------------------------ Go helpers ---
EmptyMap == [k \in {} |-> 0]

\* m[k] of a Go map: the zero value when the key is absent
MapGet(m, k, zero) == IF k \in DOMAIN m THEN m[k] ELSE zero

\* m[k] = v of a Go map
MapPut(m, k, v) == [x \in DOMAIN m \cup {k} |-> IF x = k THEN v ELSE m[x]]

\* floating-point values are carried in tenths; iround rounds half away from 0
iround(f) == IF f >= 0 THEN (f + 5) \div 10 ELSE -((5 - f) \div 10)

RECURSIVE FormatUint(_)
\* fmt.Sprintf("%d", id)
FormatUint(n) ==
    LET d == <<"0", "1", "2", "3", "4", "5", "6", "7", "8", "9">>
    IN  IF n < 10 THEN d[n + 1] ELSE FormatUint(n \div 10) \o d[(n % 10) + 1]

\* ------------------------------------------------- decoder game state ------
\* pl.Position(), pl.ViewDirectionX(), pl.IsAlive(), pl.Health(), pl.Name of
\* the recording: functions of the player and of the tick being replayed
PositionX(pl) == 1004 * pl + 3 * tick - 1500
PositionY(pl) == 15 - 996 * pl - 7 * tick
PositionZ(pl) == 640 + 5 * pl
ViewDirectionX(pl) == (900 * pl + 37 * tick) % 3600
IsAlive(pl) == (tick \div SampleTicks + pl) % 3 # 0
Health(pl) == IF IsAlive(pl) THEN 100 - tick \div 4 ELSE 0
NameOf(pl) == "player" \o FormatUint(pl)
\* e.Position of a grenade event, e.Inferno.Entity.Position()
GrenadeX == 2204 - 11 * tick
GrenadeY == 13 * tick - 806
TeamOf(pl) == IF pl % 2 = 0 THEN "CT" ELSE "T"
\* SteamID64 of p.GameState().Bomb().Carrier, 0 when there is no carrier
CarrierID == (tick \div TickStep) % (MaxId + 1)
HeaderMapName == "de_mirage"

\* ------------------------------------------------------------- data types --
NilRound == [isNil |-> TRUE]

\* NewRound numbering the rounds from zero
NewRoundZeroBased(num, cts, ts) ==
    [Num |-> num - 1, Winner |-> "", CTScore |-> cts, TScore |-> ts,
     FreezeEnd |-> 0, Frames |-> <<>>, Kills |-> <<>>, Bomb |-> <<>>,
     Grenades |-> <<>>, Shots |-> <<>>, Dmg |-> <<>>, Trails |-> <<>>]

NewRound(num, cts, ts) ==
    [Num |-> num, Winner |-> "", CTScore |-> cts, TScore |-> ts,
     FreezeEnd |-> 0, Frames |-> <<>>, Kills |-> <<>>, Bomb |-> <<>>,
     Grenades |-> <<>>, Shots |-> <<>>, Dmg |-> <<>>, Trails |-> <<>>]

\* processDemoFile has not been called, the viewer's script is not running
Idle == [pc |-> "idle"]

\* a combat event as the decoder hands it to its handler
Event(kind, arg) == [kind |-> kind, arg |-> arg]
NoEvent == Event("", Nil)

\* Parse's pair of results (*DemoData, error); data is NilData for nil
NotReturned == [returned |-> FALSE]
NilData == [isNil |-> TRUE]
\* Return emitting the round that is still open when the stream ends
ReturnFlushing(d, err) ==
    [returned |-> TRUE,
     data |-> IF ~err /\ cur # [isNil |-> TRUE]
              THEN [d EXCEPT !.Rounds = Append(@, cur)] ELSE d,
     err |-> err]

Return(d, err) == [returned |-> TRUE, data |-> d, err |-> err]

ZeroStat == [K |-> 0, D |-> 0, HS |-> 0, DMG |-> 0, R |-> 0]

\* ----------------------------------------------------------------- getIdx --
\* The part of Parse's state getIdx works on.
IdxState == [data |-> data, pidx |-> pidx, ret |-> -1]

\* getIdx taking the index after the append instead of before it
getIdxAfterAppend(st, pl) ==
    IF pl = Nil THEN [st EXCEPT !.ret = -1]
    ELSE IF pl \in DOMAIN st.pidx
    THEN [st EXCEPT !.ret = st.pidx[pl]]
    ELSE LET i == Len(st.data.Players) + 1
         IN  [data |-> [st.data EXCEPT
                            !.Players = Append(@, [ID |-> FormatUint(pl),
                                                   Name |-> NameOf(pl)]),
                            !.Stats = Append(@, ZeroStat)],
              pidx |-> MapPut(st.pidx, pl, i),
              ret  |-> i]

\* getIdx growing the player list without the stat list
getIdxPlayersOnly(st, pl) ==
    IF pl = Nil THEN [st EXCEPT !.ret = -1]
    ELSE IF pl \in DOMAIN st.pidx
    THEN [st EXCEPT !.data.Players[st.pidx[pl] + 1].Name = NameOf(pl),
                    !.ret = st.pidx[pl]]
    ELSE LET i == Len(st.data.Players)
         IN  [data |-> [st.data EXCEPT
                            !.Players = Append(@, [ID |-> FormatUint(pl),
                                                   Name |-> NameOf(pl)])],
              pidx |-> MapPut(st.pidx, pl, i),
              ret  |-> i]

getIdx(st, pl) ==
    IF pl = Nil THEN [st EXCEPT !.ret = -1]
    ELSE IF pl \in DOMAIN st.pidx
    THEN [st EXCEPT !.data.Players[st.pidx[pl] + 1].Name = NameOf(pl),
                    !.ret = st.pidx[pl]]
    ELSE LET i == Len(st.data.Players)
         IN  [data |-> [st.data EXCEPT
                            !.Players = Append(@, [ID |-> FormatUint(pl),
                                                   Name |-> NameOf(pl)]),
                            !.Stats = Append(@, ZeroStat)],
              pidx |-> MapPut(st.pidx, pl, i),
              ret  |-> i]

\* ----------------------------------------------------------- captureFrame --
\* Participants().Playing() as a slice: the playing ids in ascending order
RECURSIVE PlayingList(_)
PlayingList(S) ==
    IF S = {} THEN <<>>
    ELSE LET m == CHOOSE x \in S : \A y \in S : x <= y
         IN  <<m>> \o PlayingList(S \ {m})

PlayerFlags(pl) ==
    LET side  == IF TeamOf(pl) = "CT" THEN 0 ELSE 2
        flags == IF ~IsAlive(pl) THEN side + 1 ELSE side
    IN  IF pl = CarrierID THEN flags + 4 ELSE flags

RECURSIVE captureLoop(_, _, _)
\* the for loop of captureFrame over the rest of the playing slice; fr carries
\* the frame built so far and st the state getIdx works on
captureLoop(rest, fr, st) ==
    IF rest = <<>> THEN [frame |-> fr, st |-> st]
    ELSE LET pl == Head(rest)
         IN  IF pl = 0
             THEN captureLoop(Tail(rest), fr, st)
             ELSE LET g == getIdx(st, pl)
                      ps == [Idx |-> g.ret, Flags |-> PlayerFlags(pl),
                             HP |-> Health(pl),
                             X |-> iround(PositionX(pl)),
                             Y |-> iround(PositionY(pl)),
                             Z |-> iround(PositionZ(pl)),
                             Yaw |-> iround(ViewDirectionX(pl))]
                  IN  captureLoop(Tail(rest),
                                  [fr EXCEPT !.Players = Append(@, ps)], g)

captureFrame(t, st) ==
    captureLoop(PlayingList(playing), [Tick |-> t, Players |-> <<>>], st)

\* ----------------------------------------------------------------- Init ----
\* Parse has registered its handlers and is about to enter its loop over a
\* recording that holds n combat events.
InitParser(n) ==
    /\ events = n
    /\ hurtLog = <<>>
    /\ lastEvent = NoEvent
    /\ roundLog = [starts |-> 0, open |-> FALSE, CT |-> 0, T |-> 0,
                   endTick |-> 0]
    /\ returned = NotReturned
    /\ activeSmokes = EmptyMap
    /\ pendingInfernos = EmptyMap
    /\ pc = "loop"
    /\ tick = 0
    /\ fullPacket = FALSE
    /\ warmup = TRUE
    /\ playing = {}
    /\ data = [MapName |-> "", Players |-> <<>>, Rounds |-> <<>>, Stats |-> <<>>]
    /\ pidx = EmptyMap
    /\ cur = NilRound
    /\ inRound = FALSE
    /\ roundNum = 0
    /\ freezeEndTick = 0
    /\ ctScore = 0
    /\ tScore = 0
    /\ lastShot = EmptyMap
    /\ roundVicDmg = EmptyMap
    /\ bombX = 0
    /\ bombY = 0
    /\ bombSite = ""

InitWith(n) ==
    /\ InitParser(n)
    /\ main = Idle
    /\ viewer = Idle

Init == InitWith(MaxEvents)

\* ------------------------------------------------------ the decoder steps ---
\* p.ParseNextFrame() is entered: the decoder moves to its next frame, at most
\* `steps` frames into the recording. A DEM_FullPacket repeats the tick of the
\* preceding delta frame. Warmup may end with the step.
ParseNextFrame(steps) ==
    /\ pc = "loop"
    /\ pc' = "parse"
    /\ \/ /\ ~fullPacket
          /\ fullPacket' = TRUE
          /\ tick' = tick
       \/ /\ fullPacket' = FALSE
          /\ tick + TickStep <= steps * TickStep
          /\ tick' = tick + TickStep
    /\ warmup' \in {warmup, FALSE}
    /\ UNCHANGED <<playing, events, hurtLog, lastEvent, roundLog, returned>>
    /\ UNCHANGED parseVars
    /\ UNCHANGED pendingVars
    /\ UNCHANGED frontVars

\* ParseError returning what Parse has gathered so far beside the error
ParseErrorPartial ==
    /\ pc = "loop"
    /\ pc' = "failed"
    /\ returned' = Return(data, TRUE)
    /\ UNCHANGED <<tick, fullPacket, warmup, playing, events, hurtLog,
                   lastEvent, roundLog>>
    /\ UNCHANGED parseVars
    /\ UNCHANGED pendingVars
    /\ UNCHANGED frontVars

\* p.ParseNextFrame() returns an error: Parse returns (nil, error)
ParseError ==
    /\ pc = "loop"
    /\ pc' = "failed"
    /\ returned' = Return(NilData, TRUE)
    /\ UNCHANGED <<tick, fullPacket, warmup, playing, events, hurtLog,
                   lastEvent, roundLog>>
    /\ UNCHANGED parseVars
    /\ UNCHANGED pendingVars
    /\ UNCHANGED frontVars

\* The decoder adds a player to Participants().Playing() while it parses a
\* frame; players connect between rounds.
Connect(pl) ==
    /\ pc = "parse"
    /\ cur = NilRound
    /\ pl \notin playing
    /\ playing' = playing \cup {pl}
    /\ UNCHANGED <<pc, tick, fullPacket, warmup, events, hurtLog, lastEvent,
                   roundLog, returned>>
    /\ UNCHANGED parseVars
    /\ UNCHANGED pendingVars
    /\ UNCHANGED frontVars

\* A player joins Participants().Playing() while a round is open.
Join(pl) ==
    /\ pc = "parse"
    /\ cur # NilRound
    /\ pl \notin playing
    /\ playing' = playing \cup {pl}
    /\ UNCHANGED <<pc, tick, fullPacket, warmup, events, hurtLog, lastEvent,
                   roundLog, returned>>
    /\ UNCHANGED parseVars
    /\ UNCHANGED pendingVars
    /\ UNCHANGED frontVars

\* A player leaves Participants().Playing(): a disconnect, a move to the
\* spectators.
Leave(pl) ==
    /\ pc = "parse"
    /\ pl \in playing
    /\ playing' = playing \ {pl}
    /\ UNCHANGED <<pc, tick, fullPacket, warmup, events, hurtLog, lastEvent,
                   roundLog, returned>>
    /\ UNCHANGED parseVars
    /\ UNCHANGED pendingVars
    /\ UNCHANGED frontVars

\* The game returns to its warmup period.
WarmupBegins ==
    /\ pc = "parse"
    /\ ~warmup
    /\ warmup' = TRUE
    /\ UNCHANGED <<pc, tick, fullPacket, playing, events, hurtLog, lastEvent,
                   roundLog, returned>>
    /\ UNCHANGED parseVars
    /\ UNCHANGED pendingVars
    /\ UNCHANGED frontVars

\* ------------------------------------------------------------- handlers ----
\* RoundStart without the reset of the per-round damage map
RoundStartKeepDamage(rounds) ==
    /\ pc = "parse"
    /\ roundLog.starts < rounds
    /\ IF warmup
       THEN UNCHANGED parseVars
       ELSE /\ roundNum' = roundNum + 1
            /\ cur' = NewRound(roundNum + 1, ctScore, tScore)
            /\ freezeEndTick' = 0
            /\ inRound' = TRUE
            /\ lastShot' = EmptyMap
            /\ UNCHANGED <<data, pidx, ctScore, tScore, roundVicDmg, bombX,
                           bombY, bombSite>>
    /\ hurtLog' = IF warmup THEN hurtLog ELSE <<>>
    /\ roundLog' = [roundLog EXCEPT !.starts = @ + 1,
                                    !.open = IF warmup THEN @ ELSE TRUE]
    /\ lastEvent' = Event("RoundStart", warmup)
    /\ UNCHANGED <<pc, tick, fullPacket, warmup, playing, events, returned>>
    /\ UNCHANGED pendingVars
    /\ UNCHANGED frontVars

\* IsWarmupPeriod answering no at all times
IsWarmupPeriodNever == FALSE

\* p.GameState().IsWarmupPeriod()
IsWarmupPeriod == warmup

\* events.RoundStart; the recording holds at most `rounds` of them
\* RoundStart emitting the round it replaces
RoundStartEmitting(rounds) ==
    /\ pc = "parse"
    /\ roundLog.starts < rounds
    /\ IF IsWarmupPeriod
       THEN UNCHANGED parseVars
       ELSE /\ roundNum' = roundNum + 1
            /\ cur' = NewRound(roundNum + 1, ctScore, tScore)
            /\ freezeEndTick' = 0
            /\ inRound' = TRUE
            /\ lastShot' = EmptyMap
            /\ roundVicDmg' = EmptyMap
            /\ data' = IF cur = NilRound THEN data
                       ELSE [data EXCEPT !.Rounds = Append(@, cur)]
            /\ UNCHANGED <<pidx, ctScore, tScore, bombX, bombY, bombSite>>
    /\ hurtLog' = IF warmup THEN hurtLog ELSE <<>>
    /\ roundLog' = [roundLog EXCEPT !.starts = @ + 1,
                                    !.open = IF warmup THEN @ ELSE TRUE]
    /\ lastEvent' = Event("RoundStart", warmup)
    /\ UNCHANGED <<pc, tick, fullPacket, warmup, playing, events, returned>>
    /\ UNCHANGED pendingVars
    /\ UNCHANGED frontVars

RoundStart(rounds) ==
    /\ pc = "parse"
    /\ roundLog.starts < rounds
    /\ IF IsWarmupPeriod
       THEN UNCHANGED parseVars
       ELSE /\ roundNum' = roundNum + 1
            /\ cur' = NewRound(roundNum + 1, ctScore, tScore)
            /\ freezeEndTick' = 0
            /\ inRound' = TRUE
            /\ lastShot' = EmptyMap
            /\ roundVicDmg' = EmptyMap
            /\ UNCHANGED <<data, pidx, ctScore, tScore, bombX, bombY, bombSite>>
    /\ hurtLog' = IF warmup THEN hurtLog ELSE <<>>
    /\ roundLog' = [roundLog EXCEPT !.starts = @ + 1,
                                    !.open = IF warmup THEN @ ELSE TRUE]
    /\ lastEvent' = Event("RoundStart", warmup)
    /\ UNCHANGED <<pc, tick, fullPacket, warmup, playing, events, returned>>
    /\ UNCHANGED pendingVars
    /\ UNCHANGED frontVars

\* events.RoundFreezetimeEnd
RoundFreezetimeEnd ==
    /\ pc = "parse"
    /\ IF cur = NilRound
       THEN UNCHANGED parseVars
       ELSE /\ freezeEndTick' = tick
            /\ cur' = [cur EXCEPT !.FreezeEnd = tick]
            /\ UNCHANGED <<data, pidx, inRound, roundNum, ctScore, tScore,
                           lastShot, roundVicDmg, bombX, bombY, bombSite>>
    /\ UNCHANGED decoderVars
    /\ UNCHANGED <<lastEvent, roundLog, returned>>
    /\ UNCHANGED pendingVars
    /\ UNCHANGED frontVars

\* creditRounds crediting every known player, not those of the first frame
creditRoundsEveryone(stats, pss) ==
    [i \in 1 .. Len(stats) |-> [stats[i] EXCEPT !.R = @ + 1]]

RECURSIVE creditRounds(_, _)
\* the loop over cur.Frames[0].Players that counts a round played
creditRounds(stats, pss) ==
    IF pss = <<>> THEN stats
    ELSE LET ps == Head(pss)
         IN  creditRounds(
                 IF ps.Idx >= 0 /\ ps.Idx < Len(stats)
                 THEN [stats EXCEPT ![ps.Idx + 1].R = @ + 1] ELSE stats,
                 Tail(pss))

\* KeepRound with the threshold off by one
KeepRoundStrict(frames) == Len(frames) > MinFrames

\* the retention test of the RoundEnd handler
KeepRound(frames) == Len(frames) >= MinFrames

\* ScoreAfter counting a decided round for both sides
ScoreAfterAnyWinner(score, w, side) == IF w # "" THEN score + 1 ELSE score

\* the running score of a side after a round with winner w
ScoreAfter(score, w, side) == IF w = side THEN score + 1 ELSE score

\* FinalFrames appending a frame that holds no player
FinalFramesAlways(frames, f) == Append(frames, f)

\* the frames of a round after the capture at its round-end
FinalFrames(frames, f) ==
    IF Len(f.Players) > 0 THEN Append(frames, f) ELSE frames

\* RoundEnd leaving the in-round flag as it is
RoundEndStillInRound(winner) ==
    /\ pc = "parse"
    /\ IF cur = NilRound
       THEN UNCHANGED parseVars
       ELSE LET w  == IF winner \in {"CT", "T"} THEN winner ELSE cur.Winner
                c  == captureFrame(tick, IdxState)
                fs == FinalFrames(cur.Frames, c.frame)
                r  == [cur EXCEPT !.Winner = w, !.Frames = fs]
                d1 == c.st.data
            IN  /\ ctScore' = ScoreAfter(ctScore, w, "CT")
                /\ tScore' = ScoreAfter(tScore, w, "T")
                /\ pidx' = c.st.pidx
                /\ data' = IF KeepRound(fs)
                           THEN [d1 EXCEPT
                                   !.Stats = creditRounds(@, fs[1].Players),
                                   !.Rounds = Append(@, r)]
                           ELSE d1
                /\ cur' = NilRound
                /\ UNCHANGED <<inRound, roundNum, freezeEndTick, lastShot,
                               roundVicDmg, bombX, bombY, bombSite>>
    /\ roundLog' = IF ~roundLog.open THEN roundLog
                   ELSE IF winner \in {"CT", "T"}
                   THEN [roundLog EXCEPT !.open = FALSE, !.endTick = tick,
                                         ![winner] = @ + 1]
                   ELSE [roundLog EXCEPT !.open = FALSE, !.endTick = tick]
    /\ UNCHANGED decoderVars
    /\ UNCHANGED <<lastEvent, returned>>
    /\ UNCHANGED pendingVars
    /\ UNCHANGED frontVars

\* events.RoundEnd
RoundEnd(winner) ==
    /\ pc = "parse"
    /\ IF cur = NilRound
       THEN UNCHANGED parseVars
       ELSE LET w  == IF winner \in {"CT", "T"} THEN winner ELSE cur.Winner
                c  == captureFrame(tick, IdxState)
                fs == FinalFrames(cur.Frames, c.frame)
                r  == [cur EXCEPT !.Winner = w, !.Frames = fs]
                d1 == c.st.data
            IN  /\ ctScore' = ScoreAfter(ctScore, w, "CT")
                /\ tScore' = ScoreAfter(tScore, w, "T")
                /\ pidx' = c.st.pidx
                /\ data' = IF KeepRound(fs)
                           THEN [d1 EXCEPT
                                   !.Stats = creditRounds(@, fs[1].Players),
                                   !.Rounds = Append(@, r)]
                           ELSE d1
                /\ cur' = NilRound
                /\ inRound' = FALSE
                /\ UNCHANGED <<roundNum, freezeEndTick, lastShot, roundVicDmg,
                               bombX, bombY, bombSite>>
    /\ roundLog' = IF ~roundLog.open THEN roundLog
                   ELSE IF winner \in {"CT", "T"}
                   THEN [roundLog EXCEPT !.open = FALSE, !.endTick = tick,
                                         ![winner] = @ + 1]
                   ELSE [roundLog EXCEPT !.open = FALSE, !.endTick = tick]
    /\ UNCHANGED decoderVars
    /\ UNCHANGED <<lastEvent, returned>>
    /\ UNCHANGED pendingVars
    /\ UNCHANGED frontVars

\* The decoder dispatches the combat event ev, one of those the recording
\* holds; log is the PlayerHurt events it has dispatched since the last round
\* began.
Dispatch(ev, log) ==
    /\ events > 0
    /\ events' = events - 1
    /\ hurtLog' = log
    /\ lastEvent' = ev
    /\ UNCHANGED <<pc, tick, fullPacket, warmup, playing, roundLog, returned>>
    /\ UNCHANGED pendingVars
    /\ UNCHANGED frontVars

\* MissingPlayer testing the killer alone
MissingKiller(e) == e.Killer = Nil

\* e.Killer == nil || e.Victim == nil
MissingPlayer(e) == e.Killer = Nil \/ e.Victim = Nil

\* KillStats counting no death for a player who killed himself
KillStatsNoSuicide(s0, ai, vi, hs) ==
    LET s1 == IF ai >= 0 /\ ai < Len(s0)
              THEN [s0 EXCEPT ![ai + 1].K = @ + 1,
                              ![ai + 1].HS = IF hs THEN @ + 1 ELSE @]
              ELSE s0
    IN  IF vi >= 0 /\ vi < Len(s1) /\ vi # ai
        THEN [s1 EXCEPT ![vi + 1].D = @ + 1] ELSE s1

\* the match stats after a kill of the player vi by the player ai
KillStats(s0, ai, vi, hs) ==
    LET s1 == IF ai >= 0 /\ ai < Len(s0)
              THEN [s0 EXCEPT ![ai + 1].K = @ + 1,
                              ![ai + 1].HS = IF hs THEN @ + 1 ELSE @]
              ELSE s0
    IN  IF vi >= 0 /\ vi < Len(s1)
        THEN [s1 EXCEPT ![vi + 1].D = @ + 1] ELSE s1

\* events.Kill
Kill(e) ==
    /\ pc = "parse"
    /\ Dispatch(Event("Kill", e), hurtLog)
    /\ IF cur = NilRound \/ MissingPlayer(e)
       THEN UNCHANGED parseVars
       ELSE LET wep == IF e.Weapon # NilWeapon THEN e.Weapon ELSE ""
                ga  == getIdx(IdxState, e.Killer)
                gv  == getIdx(ga, e.Victim)
                ai  == ga.ret
                vi  == gv.ret
                killDmg == IF ai \in DOMAIN roundVicDmg
                           THEN MapGet(roundVicDmg[ai], vi, 0) ELSE 0
                k   == [Tick |-> tick, AtkIdx |-> ai, VicIdx |-> vi,
                        Weapon |-> wep, HS |-> e.IsHeadshot,
                        AtkX |-> iround(PositionX(e.Killer)),
                        AtkY |-> iround(PositionY(e.Killer)),
                        VicX |-> iround(PositionX(e.Victim)),
                        VicY |-> iround(PositionY(e.Victim)),
                        DMG |-> killDmg]
                s2  == KillStats(gv.data.Stats, ai, vi, e.IsHeadshot)
            IN  /\ cur' = [cur EXCEPT !.Kills = Append(@, k)]
                /\ data' = [gv.data EXCEPT !.Stats = s2]
                /\ pidx' = gv.pidx
                /\ UNCHANGED <<inRound, roundNum, freezeEndTick, ctScore,
                               tScore, lastShot, roundVicDmg, bombX, bombY,
                               bombSite>>

\* SameTeam skipping self damage only
SelfOnly(a, v) == a = v

\* the test of the PlayerHurt handler that skips self and team damage
SameTeam(a, v) == TeamOf(a) = TeamOf(v)

\* roundVicDmg[ai][vi] = dmg, losing what the entry held
AddDamageOverwrite(row, vi, dmg) == MapPut(row, vi, dmg)

\* roundVicDmg[ai][vi] += dmg, on the row of the attacker
AddDamage(row, vi, dmg) == MapPut(row, vi, MapGet(row, vi, 0) + dmg)

\* DmgEntry with the two fields in the other order
DmgEntrySwapped(ai, dmg) == <<dmg, ai>>

\* [2]int{ai, e.HealthDamage}, an entry of Round.Dmg
DmgEntry(ai, dmg) == <<ai, dmg>>

\* events.PlayerHurt
PlayerHurt(e) ==
    /\ pc = "parse"
    /\ Dispatch(Event("PlayerHurt", e), Append(hurtLog, e))
    /\ IF cur = NilRound \/ e.Attacker = Nil \/ e.Player = Nil
       THEN UNCHANGED parseVars
       ELSE IF SameTeam(e.Attacker, e.Player)
       THEN UNCHANGED parseVars
       ELSE LET ga == getIdx(IdxState, e.Attacker)
                gv == getIdx(ga, e.Player)
                ai == ga.ret
                vi == gv.ret
                counted == ai >= 0 /\ ai < Len(gv.data.Stats)
                row == MapGet(roundVicDmg, ai, EmptyMap)
            IN  /\ data' = IF counted
                           THEN [gv.data EXCEPT
                                    !.Stats[ai + 1].DMG = @ + e.HealthDamage]
                           ELSE gv.data
                /\ cur' = IF counted
                          THEN [cur EXCEPT
                                    !.Dmg = Append(@, DmgEntry(ai,
                                                            e.HealthDamage))]
                          ELSE cur
                /\ roundVicDmg' =
                       IF ai >= 0 /\ vi >= 0
                       THEN MapPut(roundVicDmg, ai,
                                   AddDamage(row, vi, e.HealthDamage))
                       ELSE roundVicDmg
                /\ pidx' = gv.pidx
                /\ UNCHANGED <<inRound, roundNum, freezeEndTick, ctScore,
                               tScore, lastShot, bombX, bombY, bombSite>>

\* string(rune(e.Site))
RuneString(r) == IF r = 65 THEN "A" ELSE IF r = 66 THEN "B" ELSE "?"

\* cur.Bomb = append(cur.Bomb, BombAction{...}) with the bomb state x, y, site
AppendBomb(action, x, y, site) ==
    cur' = [cur EXCEPT !.Bomb = Append(@, [Tick |-> tick, Action |-> action,
                                           X |-> x, Y |-> y, Site |-> site])]

\* events.BombPlantBegin (action 0) and events.BombPlanted (action 1)
BombPlant(action, e) ==
    /\ pc = "parse"
    /\ Dispatch(Event("Bomb", <<action, e>>), hurtLog)
    /\ action \in {0, 1}
    /\ IF cur = NilRound \/ e.Player = Nil
       THEN UNCHANGED parseVars
       ELSE /\ bombX' = iround(PositionX(e.Player))
            /\ bombY' = iround(PositionY(e.Player))
            /\ bombSite' = RuneString(e.Site)
            /\ AppendBomb(action, iround(PositionX(e.Player)),
                          iround(PositionY(e.Player)), RuneString(e.Site))
            /\ UNCHANGED <<data, pidx, inRound, roundNum, freezeEndTick,
                           ctScore, tScore, lastShot, roundVicDmg>>

\* events.BombDefuseStart
BombDefuseStart(e) ==
    /\ pc = "parse"
    /\ Dispatch(Event("BombDefuseStart", e), hurtLog)
    /\ IF cur = NilRound \/ e.Player = Nil
       THEN UNCHANGED parseVars
       ELSE /\ AppendBomb(2, bombX, bombY, bombSite)
            /\ UNCHANGED <<data, pidx, inRound, roundNum, freezeEndTick,
                           ctScore, tScore, lastShot, roundVicDmg, bombX,
                           bombY, bombSite>>

\* events.BombDefused
BombDefused(e) ==
    /\ pc = "parse"
    /\ Dispatch(Event("BombDefused", e), hurtLog)
    /\ IF cur = NilRound \/ e.Player = Nil
       THEN UNCHANGED parseVars
       ELSE /\ AppendBomb(3, bombX, bombY, RuneString(e.Site))
            /\ UNCHANGED <<data, pidx, inRound, roundNum, freezeEndTick,
                           ctScore, tScore, lastShot, roundVicDmg, bombX,
                           bombY, bombSite>>

\* events.BombExplode (action 4) and events.BombPickup (action 6)
BombExplodeOrPickup(action) ==
    /\ pc = "parse"
    /\ Dispatch(Event("Bomb", <<action, Nil>>), hurtLog)
    /\ action \in {4, 6}
    /\ IF cur = NilRound
       THEN UNCHANGED parseVars
       ELSE /\ AppendBomb(action, bombX, bombY, bombSite)
            /\ UNCHANGED <<data, pidx, inRound, roundNum, freezeEndTick,
                           ctScore, tScore, lastShot, roundVicDmg, bombX,
                           bombY, bombSite>>

\* BombDropped recording the player's position without keeping it
BombDroppedForgetful(e) ==
    /\ pc = "parse"
    /\ Dispatch(Event("BombDropped", e), hurtLog)
    /\ IF cur = NilRound \/ e.Player = Nil
       THEN UNCHANGED parseVars
       ELSE /\ AppendBomb(5, iround(PositionX(e.Player)),
                          iround(PositionY(e.Player)), bombSite)
            /\ UNCHANGED <<data, pidx, inRound, roundNum, freezeEndTick,
                           ctScore, tScore, lastShot, roundVicDmg, bombX,
                           bombY, bombSite>>

\* events.BombDropped
BombDropped(e) ==
    /\ pc = "parse"
    /\ Dispatch(Event("BombDropped", e), hurtLog)
    /\ IF cur = NilRound \/ e.Player = Nil
       THEN UNCHANGED parseVars
       ELSE /\ bombX' = iround(PositionX(e.Player))
            /\ bombY' = iround(PositionY(e.Player))
            /\ AppendBomb(5, iround(PositionX(e.Player)),
                          iround(PositionY(e.Player)), bombSite)
            /\ UNCHANGED <<data, pidx, inRound, roundNum, freezeEndTick,
                           ctScore, tScore, lastShot, roundVicDmg, bombSite>>

\* smokeType left at its initial value whoever threw the smoke
SmokeTypeGeneric(thrower) == 0

\* the smokeType of the SmokeStart handler
SmokeType(thrower) ==
    IF thrower = Nil THEN 0
    ELSE IF TeamOf(thrower) = "CT" THEN 4
    ELSE IF TeamOf(thrower) = "T" THEN 5
    ELSE 0

\* AppendGrenade leaving the end tick for an expiry event to fill
AppendGrenadeOpenEnded(endTick, type) ==
    cur' = [cur EXCEPT !.Grenades =
              Append(@, [StartTick |-> tick, EndTick |-> 0,
                         Type |-> type, X |-> iround(GrenadeX),
                         Y |-> iround(GrenadeY)])]

\* cur.Grenades = append(cur.Grenades, Grenade{...})
AppendGrenade(endTick, type) ==
    cur' = [cur EXCEPT !.Grenades =
              Append(@, [StartTick |-> tick, EndTick |-> endTick,
                         Type |-> type, X |-> iround(GrenadeX),
                         Y |-> iround(GrenadeY)])]

\* events.SmokeStart
SmokeStart(e) ==
    /\ pc = "parse"
    /\ Dispatch(Event("SmokeStart", e), hurtLog)
    /\ IF cur = NilRound
       THEN UNCHANGED parseVars
       ELSE /\ AppendGrenade(tick + 1152, SmokeType(e.Thrower))
            /\ UNCHANGED <<data, pidx, inRound, roundNum, freezeEndTick,
                           ctScore, tScore, lastShot, roundVicDmg, bombX,
                           bombY, bombSite>>

\* events.HeExplode
HeExplode ==
    /\ pc = "parse"
    /\ Dispatch(Event("HeExplode", Nil), hurtLog)
    /\ IF cur = NilRound
       THEN UNCHANGED parseVars
       ELSE /\ AppendGrenade(0, 2)
            /\ UNCHANGED <<data, pidx, inRound, roundNum, freezeEndTick,
                           ctScore, tScore, lastShot, roundVicDmg, bombX,
                           bombY, bombSite>>

\* events.FlashExplode
FlashExplode ==
    /\ pc = "parse"
    /\ Dispatch(Event("FlashExplode", Nil), hurtLog)
    /\ IF cur = NilRound
       THEN UNCHANGED parseVars
       ELSE /\ AppendGrenade(0, 1)
            /\ UNCHANGED <<data, pidx, inRound, roundNum, freezeEndTick,
                           ctScore, tScore, lastShot, roundVicDmg, bombX,
                           bombY, bombSite>>

\* events.InfernoStart
InfernoStart ==
    /\ pc = "parse"
    /\ Dispatch(Event("InfernoStart", Nil), hurtLog)
    /\ IF cur = NilRound
       THEN UNCHANGED parseVars
       ELSE /\ AppendGrenade(tick + 448, 3)
            /\ UNCHANGED <<data, pidx, inRound, roundNum, freezeEndTick,
                           ctScore, tScore, lastShot, roundVicDmg, bombX,
                           bombY, bombSite>>

\* WeaponFire resolving the shooter's index before it tests for an open round
WeaponFireEagerIdx(e) ==
    /\ pc = "parse"
    /\ Dispatch(Event("WeaponFire", e), hurtLog)
    /\ IF e.Shooter = Nil
       THEN UNCHANGED parseVars
       ELSE LET g  == getIdx(IdxState, e.Shooter)
                pi == g.ret
            IN  /\ data' = g.data
                /\ pidx' = g.pidx
                /\ IF \/ cur = NilRound
                      \/ pi \in DOMAIN lastShot /\ tick - lastShot[pi] < SampleTicks
                   THEN UNCHANGED <<cur, lastShot>>
                   ELSE /\ cur' = [cur EXCEPT !.Shots =
                                     Append(@, [Tick |-> tick, PIdx |-> pi])]
                        /\ lastShot' = MapPut(lastShot, pi, tick)
                /\ UNCHANGED <<inRound, roundNum, freezeEndTick, ctScore,
                               tScore, roundVicDmg, bombX, bombY, bombSite>>

\* WeaponFire with no window: every shot of an open round is recorded
WeaponFireEveryShot(e) ==
    /\ pc = "parse"
    /\ Dispatch(Event("WeaponFire", e), hurtLog)
    /\ IF cur = NilRound \/ e.Shooter = Nil
       THEN UNCHANGED parseVars
       ELSE LET g  == getIdx(IdxState, e.Shooter)
                pi == g.ret
            IN  /\ data' = g.data
                /\ pidx' = g.pidx
                /\ cur' = [cur EXCEPT !.Shots =
                              Append(@, [Tick |-> tick, PIdx |-> pi])]
                /\ lastShot' = MapPut(lastShot, pi, tick)
                /\ UNCHANGED <<inRound, roundNum, freezeEndTick, ctScore,
                               tScore, roundVicDmg, bombX, bombY, bombSite>>

\* events.WeaponFire
WeaponFire(e) ==
    /\ pc = "parse"
    /\ Dispatch(Event("WeaponFire", e), hurtLog)
    /\ IF cur = NilRound \/ e.Shooter = Nil
       THEN UNCHANGED parseVars
       ELSE LET g  == getIdx(IdxState, e.Shooter)
                pi == g.ret
            IN  /\ data' = g.data
                /\ pidx' = g.pidx
                /\ IF pi \in DOMAIN lastShot /\ tick - lastShot[pi] < SampleTicks
                   THEN UNCHANGED <<cur, lastShot>>
                   ELSE /\ cur' = [cur EXCEPT !.Shots =
                                     Append(@, [Tick |-> tick, PIdx |-> pi])]
                        /\ lastShot' = MapPut(lastShot, pi, tick)
                /\ UNCHANGED <<inRound, roundNum, freezeEndTick, ctScore,
                               tScore, roundVicDmg, bombX, bombY, bombSite>>

\* ------------------------------------------------------ the sampling loop ---
\* SampleNow without the test of the sampling interval
SampleNowAnyTick == freezeEndTick > 0 /\ tick >= freezeEndTick

\* SampleNow without the test that freeze time has ended
SampleNowInFreeze == tick >= freezeEndTick /\ tick % SampleTicks = 0

\* the condition under which the loop captures a frame at the current tick
SampleNow ==
    freezeEndTick > 0 /\ tick >= freezeEndTick /\ tick % SampleTicks = 0

\* The body of the for loop after ParseNextFrame has returned (ok, nil); the
\* loop ends, and Parse returns data, when ok is false, which the decoder
\* reports with the last of the `steps` frames of the recording.
SampleLoop(ok, steps) ==
    /\ pc = "parse"
    /\ ok \/ tick + TickStep > steps * TickStep
    /\ LET c == captureFrame(tick, IdxState)
           capture == inRound /\ cur # NilRound /\ SampleNow
           d1 == IF capture THEN c.st.data ELSE data
       IN  /\ cur' = IF capture /\ Len(c.frame.Players) > 0
                     THEN [cur EXCEPT !.Frames = Append(@, c.frame)] ELSE cur
           /\ pidx' = IF capture THEN c.st.pidx ELSE pidx
           /\ data' = IF ok THEN d1 ELSE [d1 EXCEPT !.MapName = HeaderMapName]
    /\ pc' = IF ok THEN "loop" ELSE "done"
    /\ returned' = IF ok THEN returned ELSE Return(data', FALSE)
    /\ UNCHANGED <<tick, fullPacket, warmup, playing, events, hurtLog,
                   lastEvent, roundLog>>
    /\ UNCHANGED pendingVars
    /\ UNCHANGED frontVars
    /\ UNCHANGED <<inRound, roundNum, freezeEndTick, ctScore, tScore, lastShot,
                   roundVicDmg, bombX, bombY, bombSite>>

\* ------------------------------------- grenades of the earlier revision ----
\* The file holds an earlier revision of Parse (lines 1-566) whose grenade
\* handlers wait for the expiry events and which records projectile trails.
\* Its round, frame and score handling is that of the handlers above; its
\* grenade handlers follow. A *Round held by a pending entry is modelled by
\* the round's number.

\* the decoder dispatches a grenade event to a handler of the earlier revision
DispatchPending(ev) ==
    /\ events > 0
    /\ events' = events - 1
    /\ lastEvent' = ev
    /\ UNCHANGED <<pc, tick, fullPacket, warmup, playing, hurtLog, roundLog,
                   returned>>
    /\ UNCHANGED frontVars

\* AppendToRound with data.Rounds holding the pointer, not a copy of *cur
AppendToRoundShared(num, g) ==
    /\ cur' = IF cur # NilRound /\ cur.Num = num
              THEN [cur EXCEPT !.Grenades = Append(@, g)] ELSE cur
    /\ data' = [data EXCEPT !.Rounds =
                   [i \in 1 .. Len(@) |->
                       IF @[i].Num = num
                       THEN [@[i] EXCEPT !.Grenades = Append(@, g)]
                       ELSE @[i]]]

\* entry.round.Grenades = append(entry.round.Grenades, g): the round the
\* entry points to is cur, or a round that cur no longer points to; the
\* rounds of data.Rounds are copies, which the append does not reach
AppendToRound(num, g) ==
    /\ cur' = IF cur # NilRound /\ cur.Num = num
              THEN [cur EXCEPT !.Grenades = Append(@, g)] ELSE cur
    /\ data' = data

\* events.SmokeStart, earlier revision
SmokeStartPending(e) ==
    /\ pc = "parse"
    /\ DispatchPending(Event("SmokeStartPending", e))
    /\ activeSmokes' =
           IF cur = NilRound THEN activeSmokes
           ELSE MapPut(activeSmokes, e.GrenadeEntityID,
                       [round |-> cur.Num, startTick |-> tick,
                        x |-> iround(GrenadeX), y |-> iround(GrenadeY)])
    /\ UNCHANGED parseVars
    /\ UNCHANGED pendingInfernos

\* events.SmokeExpired
SmokeExpired(e) ==
    /\ pc = "parse"
    /\ DispatchPending(Event("SmokeExpired", e))
    /\ IF e.GrenadeEntityID \notin DOMAIN activeSmokes
       THEN UNCHANGED <<cur, data, activeSmokes>>
       ELSE LET entry == activeSmokes[e.GrenadeEntityID]
            IN  /\ AppendToRound(entry.round,
                                 [StartTick |-> entry.startTick,
                                  EndTick |-> tick, Type |-> 0,
                                  X |-> entry.x, Y |-> entry.y])
                /\ activeSmokes' = [k \in DOMAIN activeSmokes \
                                             {e.GrenadeEntityID} |->
                                         activeSmokes[k]]
    /\ UNCHANGED <<pidx, inRound, roundNum, freezeEndTick, ctScore,
                   tScore, lastShot, roundVicDmg, bombX, bombY, bombSite>>
    /\ UNCHANGED pendingInfernos

\* events.InfernoStart, earlier revision
InfernoStartPending(e) ==
    /\ pc = "parse"
    /\ DispatchPending(Event("InfernoStartPending", e))
    /\ pendingInfernos' =
           IF cur = NilRound THEN pendingInfernos
           ELSE MapPut(pendingInfernos, e.UniqueID,
                       [round |-> cur.Num, startTick |-> tick,
                        x |-> 0, y |-> 0, hasPos |-> FALSE])
    /\ UNCHANGED parseVars
    /\ UNCHANGED activeSmokes

\* events.InfernoExpired
InfernoExpired(e) ==
    /\ pc = "parse"
    /\ DispatchPending(Event("InfernoExpired", e))
    /\ IF e.UniqueID \notin DOMAIN pendingInfernos
       THEN UNCHANGED <<cur, data, pendingInfernos>>
       ELSE LET infData == pendingInfernos[e.UniqueID]
            IN  /\ IF ~infData.hasPos THEN UNCHANGED <<cur, data>>
                   ELSE AppendToRound(infData.round,
                                      [StartTick |-> infData.startTick,
                                       EndTick |-> tick, Type |-> 3,
                                       X |-> infData.x, Y |-> infData.y])
                /\ pendingInfernos' = [k \in DOMAIN pendingInfernos \
                                                {e.UniqueID} |->
                                            pendingInfernos[k]]
    /\ UNCHANGED <<pidx, inRound, roundNum, freezeEndTick, ctScore,
                   tScore, lastShot, roundVicDmg, bombX, bombY, bombSite>>
    /\ UNCHANGED activeSmokes

\* a nil *common.GrenadeProjectile
NilProjectile == [IsNil |-> TRUE, WeaponInstance |-> NilWeapon, Samples |-> 0]

\* equipToGrenadeType
equipToGrenadeType(t) ==
    IF t = "EqSmoke" THEN 0
    ELSE IF t = "EqFlash" THEN 1
    ELSE IF t = "EqHE" THEN 2
    ELSE IF t \in {"EqMolotov", "EqIncendiary"} THEN 3
    ELSE -1

\* Projectile.Trajectory2 of a projectile that was sampled n times: the
\* decoder frame and the position, in tenths of a unit, of each sample
Trajectory2(n) ==
    [i \in 1 .. n |-> [FrameID |-> 3 * i + 40, X |-> 25 * i - 1004,
                       Y |-> 406 - 15 * i]]

\* the points a trail gets from a trajectory
TrailPoints(traj) ==
    [i \in 1 .. Len(traj) |->
        <<traj[i].FrameID, iround(traj[i].X), iround(traj[i].Y)>>]

\* events.GrenadeProjectileDestroy
GrenadeProjectileDestroy(e) ==
    /\ pc = "parse"
    /\ DispatchPending(Event("GrenadeProjectileDestroy", e))
    /\ IF \/ cur = NilRound
          \/ e.Projectile.IsNil
          \/ e.Projectile.WeaponInstance = NilWeapon
       THEN cur' = cur
       ELSE LET gt   == equipToGrenadeType(e.Projectile.WeaponInstance)
                traj == Trajectory2(e.Projectile.Samples)
            IN  IF gt < 0 \/ Len(traj) < 2
                THEN cur' = cur
                ELSE cur' = [cur EXCEPT !.Trails =
                               Append(@, [Type |-> gt,
                                          Points |-> TrailPoints(traj)])]
    /\ UNCHANGED <<data, pidx, inRound, roundNum, freezeEndTick, ctScore,
                   tScore, lastShot, roundVicDmg, bombX, bombY, bombSite>>
    /\ UNCHANGED pendingVars

\* the mean position of the active fires of an inferno, in tenths of a unit
FiresX == 20 * tick - 815
FiresY == 1205 - 30 * tick

\* The body of the for loop of the earlier revision: the body above, and the
\* capture of the position of every pending inferno that has active fires.
SampleLoopPending(ok, steps, fires) ==
    /\ pc = "parse"
    /\ ok \/ tick + TickStep > steps * TickStep
    /\ LET c == captureFrame(tick, IdxState)
           capture == inRound /\ cur # NilRound /\ SampleNow
           d1 == IF capture THEN c.st.data ELSE data
       IN  /\ cur' = IF capture /\ Len(c.frame.Players) > 0
                     THEN [cur EXCEPT !.Frames = Append(@, c.frame)] ELSE cur
           /\ pidx' = IF capture THEN c.st.pidx ELSE pidx
           /\ data' = IF ok THEN d1 ELSE [d1 EXCEPT !.MapName = HeaderMapName]
    /\ pendingInfernos' =
           IF inRound /\ cur # NilRound /\ fires
           THEN [k \in DOMAIN pendingInfernos |->
                    IF pendingInfernos[k].hasPos THEN pendingInfernos[k]
                    ELSE [pendingInfernos[k] EXCEPT
                            !.x = iround(FiresX), !.y = iround(FiresY),
                            !.hasPos = TRUE]]
           ELSE pendingInfernos
    /\ pc' = IF ok THEN "loop" ELSE "done"
    /\ returned' = IF ok THEN returned ELSE Return(data', FALSE)
    /\ UNCHANGED <<tick, fullPacket, warmup, playing, events, hurtLog,
                   lastEvent, roundLog>>
    /\ UNCHANGED <<inRound, roundNum, freezeEndTick, ctScore, tScore, lastShot,
                   roundVicDmg, bombX, bombY, bombSite>>
    /\ UNCHANGED activeSmokes
    /\ UNCHANGED frontVars

\* ------------------------------------------------------- the event stream ---
KillEvents == [Killer : Players, Victim : Players, Weapon : WeaponVals,
               IsHeadshot : BOOLEAN]
HurtEvents == [Attacker : Players, Player : Players, HealthDamage : DamageVals]
BombEvents == [Player : Players, Site : Bombsites]
SmokeEvents == [Thrower : Players]
FireEvents == [Shooter : Players]

\* kills by a rifle body shot or by a headshot with no weapon reported
PlainKills == {e \in KillEvents : e.IsHeadshot <=> e.Weapon = NilWeapon}
\* kills by a rifle body shot of a known victim by a known human player
RifleKills == {e \in KillEvents :
                 /\ e.Weapon = "AK-47" /\ ~e.IsHeadshot
                 /\ e.Killer \notin {Nil, 0} /\ e.Victim # Nil}
\* damage dealt to a known victim by a known human player
HumanHurts == {e \in HurtEvents : e.Attacker \notin {Nil, 0} /\ e.Player # Nil}
\* damage of one amount
LightHurts == {e \in HurtEvents : e.HealthDamage = 30}

\* The short recording: every kind of event, few decoder frames.
Next ==
    \/ ParseNextFrame(ShortSteps)
    \/ ParseError
    \/ \E pl \in 0 .. MaxRoster : Connect(pl)
    \/ RoundStart(ShortRounds)
    \/ RoundFreezetimeEnd
    \/ RoundEnd("T")
    \/ \E e \in PlainKills : Kill(e)
    \/ \E e \in LightHurts : PlayerHurt(e)
    \/ \E e \in BombEvents, a \in {0, 1} : BombPlant(a, e)
    \/ \E e \in BombEvents : BombDefuseStart(e)
    \/ \E e \in BombEvents : BombDefused(e)
    \/ \E a \in {4, 6} : BombExplodeOrPickup(a)
    \/ \E e \in BombEvents : BombDropped(e)
    \/ \E e \in SmokeEvents : SmokeStart(e)
    \/ HeExplode
    \/ FlashExplode
    \/ InfernoStart
    \/ \E e \in FireEvents : WeaponFire(e)
    \/ \E ok \in BOOLEAN : SampleLoop(ok, ShortSteps)

Spec == Init /\ [][Next]_vars

\* The long recording: the round life cycle and the sampling of frames, no
\* combat events, no side winning a round.
InitFrames == InitWith(0)

NextFrames ==
    \/ ParseNextFrame(LongSteps)
    \/ ParseError
    \/ \E pl \in 0 .. MaxRoster : Connect(pl)
    \/ RoundStart(LongRounds)
    \/ RoundFreezetimeEnd
    \/ RoundEnd("Draw")
    \/ \E ok \in BOOLEAN : SampleLoop(ok, LongSteps)

SpecFrames == InitFrames /\ [][NextFrames]_vars

\* The roster recording: the long recording in which the last player joins
\* while a round is open and a connected player leaves.
NextRoster ==
    \/ NextFrames
    \/ Join(MaxId)
    \/ Leave(MaxRoster)

SpecRoster == InitFrames /\ [][NextRoster]_vars

\* The scored recording: the long recording with two rounds and every winner.
NextScore ==
    \/ ParseNextFrame(LongSteps)
    \/ ParseError
    \/ \E pl \in 0 .. MaxRoster : Connect(pl)
    \/ RoundStart(ShortRounds)
    \/ RoundFreezetimeEnd
    \/ \E w \in WinnerVals : RoundEnd(w)
    \/ \E ok \in BOOLEAN : SampleLoop(ok, LongSteps)

SpecScore == InitFrames /\ [][NextScore]_vars

\* The match recording: rounds with every winner, a warmup that comes back,
\* damage and shots.
FirstHurts == {e \in HumanHurts : e.Attacker = 1 /\ e.Player = 2}
FirstShots == {e \in FireEvents : e.Shooter = 1}

NextMatch ==
    \/ ParseNextFrame(MatchSteps)
    \/ ParseError
    \/ WarmupBegins
    \/ RoundStart(MatchRounds)
    \/ RoundFreezetimeEnd
    \/ \E w \in WinnerVals : RoundEnd(w)
    \/ \E e \in FirstHurts : PlayerHurt(e)
    \/ \E e \in FirstShots : WeaponFire(e)
    \/ \E ok \in BOOLEAN : SampleLoop(ok, MatchSteps)

SpecMatch == Init /\ [][NextMatch]_vars

\* The grenade recording of the earlier revision: smokes and infernos that
\* start and expire, projectiles that are destroyed; the recording holds no
\* GrenadeProjectileThrow event.
EntityEvents == [GrenadeEntityID : EntityIds]
InfernoEvents == [UniqueID : EntityIds]
Projectiles == [IsNil : {FALSE},
                WeaponInstance : EquipmentVals \cup {NilWeapon},
                Samples : TrajLens]
DestroyEvents == [Projectile : Projectiles \cup {NilProjectile}]

InitEarlier == InitWith(EarlyEvents)

NextEarlier ==
    \/ ParseNextFrame(EarlySteps)
    \/ ParseError
    \/ RoundStart(ShortRounds)
    \/ RoundFreezetimeEnd
    \/ RoundEnd("CT")
    \/ \E e \in EntityEvents : SmokeStartPending(e)
    \/ \E e \in EntityEvents : SmokeExpired(e)
    \/ \E e \in InfernoEvents : InfernoStartPending(e)
    \/ \E e \in InfernoEvents : InfernoExpired(e)
    \/ \E e \in DestroyEvents : GrenadeProjectileDestroy(e)
    \/ \E ok, fires \in BOOLEAN : SampleLoopPending(ok, EarlySteps, fires)

SpecEarlier == InitEarlier /\ [][NextEarlier]_vars

\* The damage recording: rifle kills and damage over two rounds, no players
\* in Participants().Playing().
InitDamage == InitWith(MaxDamage)

NextDamage ==
    \/ ParseNextFrame(DamageSteps)
    \/ ParseError
    \/ RoundStart(ShortRounds)
    \/ RoundEnd("CT")
    \/ \E e \in RifleKills : Kill(e)
    \/ \E e \in HumanHurts : PlayerHurt(e)
    \/ \E ok \in BOOLEAN : SampleLoop(ok, DamageSteps)

SpecDamage == InitDamage /\ [][NextDamage]_vars

\* ------------------------------------------------------------ properties ---
RoundOpen == cur # NilRound
OutputRounds == {data.Rounds[i] : i \in 1 .. Len(data.Rounds)}
LastFrame(r) == r.Frames[Len(r.Frames)]
OnGrid(t) == t > 0 /\ t % SampleTicks = 0

\* RoundEnd is the only handler that closes the open round
RoundEndStep == RoundOpen /\ cur' = NilRound
\* the sampling loop runs when ParseNextFrame has returned
SampleStep == pc = "parse" /\ pc' # "parse"

\* C1: in every round of the output the frame ticks are strictly increasing in
\* list order, so no two frames of a round carry the same tick.
C1_FrameTicksStrictlyIncreasing ==
    \A r \in OutputRounds :
        \A i \in 1 .. Len(r.Frames) - 1 : r.Frames[i].Tick < r.Frames[i + 1].Tick

\* C2: when a decoder step repeats the tick of the step before it, the round is
\* open and the step before captured a frame for that tick, the sampling loop
\* captures no second frame for it.
C2_NoSecondFrameForRepeatedTick ==
    [][(SampleStep /\ fullPacket /\ RoundOpen /\ cur.Frames # <<>>
        /\ LastFrame(cur).Tick = tick) => cur'.Frames = cur.Frames]_vars

\* C3 as stated: every frame tick of every output round, the frame captured at
\* round end included, is a positive multiple of the sampling interval.
C3_AllFrameTicksOnGrid ==
    \A r \in OutputRounds : \A i \in 1 .. Len(r.Frames) : OnGrid(r.Frames[i].Tick)

\* C3 amended: every frame the sampling loop captures has a tick that is a
\* positive multiple of the sampling interval: all frames of the open round,
\* and all frames of an output round but its last, which round end may have
\* captured at a tick of its own.
C3_SampledFrameTicksOnGrid ==
    /\ RoundOpen => \A i \in 1 .. Len(cur.Frames) : OnGrid(cur.Frames[i].Tick)
    /\ \A r \in OutputRounds :
           \A i \in 1 .. Len(r.Frames) - 1 : OnGrid(r.Frames[i].Tick)

\* an output round whose final frame was captured off the sampling grid
C3_Witness ==
    \E r \in OutputRounds : Len(r.Frames) >= MinFrames /\ ~OnGrid(LastFrame(r).Tick)

\* the frames a round holds at round end, the force-captured one included: it
\* is captured when a player with a non-zero id is playing
FramesAtRoundEnd == Len(cur.Frames) + (IF playing \ {0} = {} THEN 0 ELSE 1)

\* C4: a round-end appends the round to the output if and only if the round
\* holds at least 5 frames, the one captured at round end included; nothing
\* else changes the output rounds.
C4_RetainedIffFiveFrames ==
    [][/\ RoundEndStep =>
              /\ FramesAtRoundEnd >= 5 =>
                     /\ Len(data'.Rounds) = Len(data.Rounds) + 1
                     /\ Len(data'.Rounds[Len(data'.Rounds)].Frames)
                            = FramesAtRoundEnd
                     /\ SubSeq(data'.Rounds, 1, Len(data.Rounds)) = data.Rounds
              /\ FramesAtRoundEnd < 5 => data'.Rounds = data.Rounds
       /\ ~RoundEndStep => data'.Rounds = data.Rounds]_vars

\* a round with exactly 5 frames is in the output
C4_Witness == \E r \in OutputRounds : Len(r.Frames) = 5

EventStep == events' # events

\* C6: a kill, damage, bomb, grenade or weapon-fired event dispatched while no
\* round is open changes nothing of Parse's state: output, player list, stats,
\* scores, damage map, shot map and bomb state are as before.
C6_EventsOutsideRoundChangeNothing ==
    [][(EventStep /\ ~RoundOpen) => UNCHANGED parseVars]_vars

\* a damage event across sides was dispatched after a round had ended and
\* left its players in the player list: no player's DMG stat has changed
C6_Witness ==
    /\ ~RoundOpen /\ roundNum > 0 /\ pidx # EmptyMap
    /\ Len(hurtLog) = 1
    /\ hurtLog[1].Attacker # Nil /\ hurtLog[1].Player # Nil
    /\ TeamOf(hurtLog[1].Attacker) # TeamOf(hurtLog[1].Player)
    /\ \A i \in 1 .. Len(data.Stats) : data.Stats[i].DMG = 0

RECURSIVE LoggedDamage(_, _, _)
\* the health damage of the logged damage events from attacker a to victim v
\* that a round records, which are those across sides
LoggedDamage(log, a, v) ==
    IF log = <<>> THEN 0
    ELSE LoggedDamage(Tail(log), a, v)
         + (IF /\ Head(log).Attacker = a
               /\ Head(log).Player = v
               /\ TeamOf(a) # TeamOf(v)
            THEN Head(log).HealthDamage ELSE 0)

\* the open round stays open and records one more kill
KillStep ==
    /\ RoundOpen
    /\ cur' # NilRound
    /\ cur'.Num = cur.Num
    /\ Len(cur'.Kills) = Len(cur.Kills) + 1

\* C7: the DMG of a kill, when the round records it, is the sum of the health
\* damage of the damage events from its attacker to its victim processed so
\* far in the round; the kills the round already holds stay as they are.
C7_KillDmgIsRoundDamage ==
    [][/\ KillStep =>
              LET k == cur'.Kills[Len(cur'.Kills)]
              IN  \E a, v \in DOMAIN pidx' :
                      /\ pidx'[a] = k.AtkIdx
                      /\ pidx'[v] = k.VicIdx
                      /\ k.DMG = LoggedDamage(hurtLog, a, v)
       /\ (RoundOpen /\ cur' # NilRound /\ cur'.Num = cur.Num) =>
              SubSeq(cur'.Kills, 1, Len(cur.Kills)) = cur.Kills]_vars

\* a kill that follows two damage events of 30 and 70 on its victim
C7_Witness ==
    RoundOpen /\ \E i \in 1 .. Len(cur.Kills) : cur.Kills[i].DMG = 100

\* C8: a round-start outside warmup leaves the per-round damage map empty, and
\* while no damage event has been processed in the open round every kill of
\* the round has DMG 0, whatever damage earlier rounds have seen.
C8_DamageMapResetAtRoundStart ==
    /\ [][roundNum' # roundNum => roundVicDmg' = EmptyMap]_vars
    /\ [](RoundOpen /\ hurtLog = <<>> =>
              \A i \in 1 .. Len(cur.Kills) : cur.Kills[i].DMG = 0)

\* player 2 has damaged player 1 in the first round and kills player 1 in the
\* second before any damage: the kill has DMG 0
C8_Witness ==
    /\ roundNum = 2 /\ RoundOpen /\ hurtLog = <<>>
    /\ {1, 2} \subseteq DOMAIN pidx
    /\ data.Stats[pidx[2] + 1].DMG > 0
    /\ \E i \in 1 .. Len(cur.Kills) :
           /\ cur.Kills[i].AtkIdx = pidx[2]
           /\ cur.Kills[i].VicIdx = pidx[1]
           /\ cur.Kills[i].DMG = 0

\* the damage event e is dispatched
HurtStep(e) == hurtLog' = Append(hurtLog, e)
\* the match-wide DMG stat of every indexed player
StatDMG(d) == [i \in 1 .. Len(d.Stats) |-> d.Stats[i].DMG]
SameSide(e) ==
    e.Attacker # Nil /\ e.Player # Nil /\ TeamOf(e.Attacker) = TeamOf(e.Player)

\* C9: a damage event whose attacker and victim are on the same side, self
\* damage included, changes neither the per-round damage map, nor the damage
\* list of the open round, nor any player's match-wide DMG stat.
C9_SameSideDamageIgnored ==
    [][\A e \in HurtEvents :
           (HurtStep(e) /\ SameSide(e)) =>
               /\ roundVicDmg' = roundVicDmg
               /\ RoundOpen => cur' # NilRound /\ cur'.Dmg = cur.Dmg
               /\ StatDMG(data') = StatDMG(data)]_vars

\* damage between two players of one side and self damage were dispatched in
\* a round that has recorded damage
C9_Witness ==
    /\ RoundOpen /\ cur.Dmg # <<>>
    /\ \E i, j \in 1 .. Len(hurtLog) :
           /\ SameSide(hurtLog[i]) /\ hurtLog[i].Attacker # hurtLog[i].Player
           /\ hurtLog[j].Attacker = hurtLog[j].Player

\* C10: the player indices are 0..n-1 for the n ids seen, no two ids share an
\* index, the entry at an id's index carries that id, an id keeps its index
\* through every step, and a new id gets an index above those in use.
C10_IndicesFirstSeenAndStable ==
    /\ [](LET n == Cardinality(DOMAIN pidx)
          IN  /\ {pidx[id] : id \in DOMAIN pidx} = 0 .. n - 1
              /\ \A a, b \in DOMAIN pidx : pidx[a] = pidx[b] => a = b
              /\ Len(data.Players) = n
              /\ \A id \in DOMAIN pidx :
                     data.Players[pidx[id] + 1].ID = FormatUint(id))
    /\ [][/\ \A id \in DOMAIN pidx :
                 id \in DOMAIN pidx' /\ pidx'[id] = pidx[id]
          /\ \A id \in DOMAIN pidx' \ DOMAIN pidx :
                 pidx'[id] >= Cardinality(DOMAIN pidx)]_vars

\* three ids seen in the order 2, 0, 1
C10_Witness ==
    /\ {0, 1, 2} \subseteq DOMAIN pidx
    /\ pidx[2] < pidx[0] /\ pidx[0] < pidx[1]

\* the player indices of a frame
FrameIdxs(f) == {f.Players[j].Idx : j \in 1 .. Len(f.Players)}

\* the number of output rounds whose first frame holds the player index
RoundsStartedWith(idx) ==
    Cardinality({k \in 1 .. Len(data.Rounds) :
                     idx \in FrameIdxs(data.Rounds[k].Frames[1])})

\* the rounds-played count of a stat entry before it exists is zero
RoundsPlayed(d, i) == IF i <= Len(d.Stats) THEN d.Stats[i].R ELSE 0

\* C11: the rounds-played count of every player is the number of output
\* rounds whose first frame holds the player; a round-end that retains the
\* round adds one to each player of its first frame and nothing to the
\* others, and a round-end that discards the round changes no count.
C11_RoundsPlayedCountsFirstFrames ==
    /\ [](\A i \in 1 .. Len(data.Stats) :
             data.Stats[i].R = RoundsStartedWith(i - 1))
    /\ [][RoundEndStep =>
            \A i \in 1 .. Len(data'.Stats) :
                data'.Stats[i].R = RoundsPlayed(data, i) +
                    (IF /\ Len(data'.Rounds) > Len(data.Rounds)
                        /\ i - 1 \in FrameIdxs(
                               data'.Rounds[Len(data'.Rounds)].Frames[1])
                     THEN 1 ELSE 0)]_vars

\* an output round whose last frame holds a player credited with no round,
\* who joined after the first frame, beside a player credited with one
C11_Witness ==
    \E r \in OutputRounds : \E i, j \in FrameIdxs(LastFrame(r)) :
        data.Stats[i + 1].R = 0 /\ data.Stats[j + 1].R = 1

\* C12: the running scores are the numbers of round-ends of an open round
\* won by CT and by T, a round-end raising one of them by one for a CT or T
\* winner and none otherwise; the scores stored in an open round and in a
\* retained round are those numbers as they stood when the round opened.
C12_ScoresCountDecidedRoundEnds ==
    /\ [](/\ ctScore = roundLog.CT /\ tScore = roundLog.T
          /\ RoundOpen => cur.CTScore = roundLog.CT /\ cur.TScore = roundLog.T)
    /\ [][RoundEndStep =>
            /\ ctScore' - ctScore \in {0, 1} /\ tScore' - tScore \in {0, 1}
            /\ (ctScore' + tScore') - (ctScore + tScore) \in {0, 1}
            /\ Len(data'.Rounds) > Len(data.Rounds) =>
                   LET r == data'.Rounds[Len(data'.Rounds)]
                   IN  /\ r.CTScore = roundLog.CT /\ r.TScore = roundLog.T
                       /\ r.Winner = "CT" <=> ctScore' = ctScore + 1
                       /\ r.Winner = "T" <=> tScore' = tScore + 1
                       /\ r.Winner = "" <=> (ctScore' = ctScore /\ tScore' = tScore)
       ]_vars

\* the only output round is the second, won by T after a discarded round
\* that CT won
C12_Witness ==
    /\ Len(data.Rounds) = 1
    /\ data.Rounds[1].Num = 2 /\ data.Rounds[1].Winner = "T"
    /\ data.Rounds[1].CTScore = 1 /\ data.Rounds[1].TScore = 0
    /\ ctScore = 1 /\ tScore = 1

\* the round that ended last, when the handler retained it
LastEnded == {r \in OutputRounds : cur = NilRound /\ r.Num = roundNum}

\* C13 as stated: the last frame of an output round has the tick at which
\* the round ended.
C13_LastFrameAtRoundEndTick ==
    \A r \in LastEnded : LastFrame(r).Tick = roundLog.endTick

\* C13: a round-end of an open round appends one frame with the round-end
\* tick when a player with a non-zero id is playing, and no frame when none
\* is; the frames the round held stay as they were.
C13_FinalFrameWhenSomeonePlays ==
    [][RoundEndStep =>
         LET n == IF playing \ {0} # {} THEN 1 ELSE 0
         IN  /\ Len(data'.Rounds) = Len(data.Rounds) =>
                    Len(cur.Frames) + n < MinFrames
             /\ Len(data'.Rounds) > Len(data.Rounds) =>
                    LET r == data'.Rounds[Len(data'.Rounds)]
                    IN  /\ Len(r.Frames) = Len(cur.Frames) + n
                        /\ SubSeq(r.Frames, 1, Len(cur.Frames)) = cur.Frames
                        /\ n = 1 => LastFrame(r).Tick = tick
       ]_vars

\* a retained round whose last frame is older than its round-end: every
\* player with a non-zero id had left
C13_Witness ==
    \E r \in LastEnded : LastFrame(r).Tick < roundLog.endTick

\* a RoundStart event is dispatched while the game is in its warmup period
WarmupStartStep ==
    /\ roundLog'.starts = roundLog.starts + 1
    /\ warmup

\* C14: a round-start during warmup opens no round and leaves the round
\* counter, the freeze floor, the damage map, the shot map and every other
\* variable of Parse as it was.
C14_WarmupRoundStartChangesNothing ==
    [][WarmupStartStep =>
         /\ cur' = cur /\ roundNum' = roundNum
         /\ freezeEndTick' = freezeEndTick
         /\ roundVicDmg' = roundVicDmg /\ lastShot' = lastShot
         /\ parseVars' = parseVars]_vars

\* the last event dispatched was a round-start during warmup, and it found
\* an open round past its freeze time with a shot on record
C14_Witness ==
    /\ lastEvent.kind = "RoundStart" /\ lastEvent.arg
    /\ RoundOpen /\ roundNum > 0 /\ freezeEndTick > 0
    /\ lastShot # EmptyMap

\* a RoundStart event outside warmup is dispatched
RoundStartStep == roundNum' # roundNum

\* C15: right after a round-start outside warmup the open round holds no
\* frame, kill, bomb action, grenade, shot, damage entry or trail, the freeze
\* floor is zero, the damage map and the shot map are empty, and no pending
\* smoke or inferno entry remains.
C15_RoundStartResetsEveryTracker ==
    [][RoundStartStep =>
         /\ cur' = NewRound(roundNum', ctScore, tScore)
         /\ cur'.Frames = <<>> /\ cur'.Kills = <<>> /\ cur'.Bomb = <<>>
         /\ cur'.Grenades = <<>> /\ cur'.Shots = <<>> /\ cur'.Dmg = <<>>
         /\ freezeEndTick' = 0
         /\ roundVicDmg' = EmptyMap /\ lastShot' = EmptyMap
         /\ activeSmokes' = EmptyMap /\ pendingInfernos' = EmptyMap]_vars

\* the grenades of the open round and of the output rounds
AllGrenades ==
    UNION {{r.Grenades[i] : i \in 1 .. Len(r.Grenades)} :
               r \in OutputRounds \cup (IF RoundOpen THEN {cur} ELSE {})}

\* C16: a smoke-start or an inferno-start dispatched in an open round appends
\* one Grenade to the round in that step, with the tick of the event as its
\* start; a smoke ends 1152 ticks and an incendiary 448 ticks after its
\* start, and a flash or an HE detonation has end tick 0.
C16_DurationGrenadesAtStart ==
    /\ [](\A g \in AllGrenades :
             /\ g.Type \in {0, 4, 5} => g.EndTick = g.StartTick + 1152
             /\ g.Type = 3 => g.EndTick = g.StartTick + 448
             /\ g.Type \in {1, 2} => g.EndTick = 0)
    /\ [][/\ EventStep /\ RoundOpen
          /\ lastEvent'.kind \in {"SmokeStart", "InfernoStart"}
          => /\ Len(cur'.Grenades) = Len(cur.Grenades) + 1
             /\ SubSeq(cur'.Grenades, 1, Len(cur.Grenades)) = cur.Grenades
             /\ LET g == cur'.Grenades[Len(cur'.Grenades)]
                IN  /\ g.StartTick = tick
                    /\ g.Type = IF lastEvent'.kind = "InfernoStart" THEN 3
                                ELSE SmokeType(lastEvent'.arg.Thrower)
                    /\ g.EndTick = tick + (IF g.Type = 3 THEN 448 ELSE 1152)
       ]_vars

\* the open round holds the smoke a T player threw, appended by the start
\* event with no expiry in the recording
C16_Witness ==
    /\ RoundOpen /\ lastEvent.kind = "SmokeStart"
    /\ Len(cur.Grenades) = 1
    /\ cur.Grenades[1].Type = 5
    /\ cur.Grenades[1].EndTick = cur.Grenades[1].StartTick + 1152

\* the trails of the open round and of the output rounds
AllTrails ==
    UNION {{r.Trails[i] : i \in 1 .. Len(r.Trails)} :
               r \in OutputRounds \cup (IF RoundOpen THEN {cur} ELSE {})}

\* a GrenadeProjectileDestroy event is dispatched
DestroyStep ==
    EventStep /\ lastEvent'.kind = "GrenadeProjectileDestroy"

\* C17: every trail has at most 80 points, the first component of its points
\* never decreases, and the trail a destroy event adds ends with the last
\* sample of the projectile's trajectory.
C17_TrailsHaveAtMostEightyPoints ==
    /\ [](\A t \in AllTrails :
             /\ Len(t.Points) <= 80
             /\ \A i \in 1 .. Len(t.Points) - 1 :
                    t.Points[i][1] <= t.Points[i + 1][1])
    /\ [][DestroyStep /\ RoundOpen /\ Len(cur'.Trails) > Len(cur.Trails) =>
            LET t    == cur'.Trails[Len(cur'.Trails)]
                traj == Trajectory2(lastEvent'.arg.Projectile.Samples)
            IN  t.Points[Len(t.Points)] =
                    <<traj[Len(traj)].FrameID, iround(traj[Len(traj)].X),
                      iround(traj[Len(traj)].Y)>>]_vars

\* C18: a destroy event in a recording that holds no throw event, so that no
\* pending throw matches it, adds no trail and changes no variable of Parse.
C18_DestroyWithoutThrowAddsNothing ==
    [][DestroyStep => parseVars' = parseVars /\ pendingVars' = pendingVars]_vars

\* a Kill event with a nil killer or a nil victim is dispatched
NilKillStep ==
    /\ EventStep /\ lastEvent'.kind = "Kill"
    /\ lastEvent'.arg.Killer = Nil \/ lastEvent'.arg.Victim = Nil

\* C19: a kill whose attacker or victim is nil appends no kill, adds no
\* player and changes no K, D or HS counter: it changes no variable of Parse.
C19_NilKillIgnored ==
    [][NilKillStep =>
         /\ cur' = cur /\ pidx' = pidx
         /\ data'.Players = data.Players /\ data'.Stats = data.Stats
         /\ parseVars' = parseVars]_vars

\* the last event of an open round was a kill with a victim and no killer
C19_Witness ==
    /\ RoundOpen /\ lastEvent.kind = "Kill"
    /\ lastEvent.arg.Killer = Nil /\ lastEvent.arg.Victim # Nil

\* C20: when the decoder reports an error Parse returns at once with the
\* error and a nil result: nothing runs after the failure, a returned error
\* comes with no data whatever Parse had gathered, and data is returned only
\* without an error, when the loop has ended.
C20_ErrorReturnsNoData ==
    /\ [](/\ returned.returned <=> pc \in {"failed", "done"}
          /\ pc = "failed" => returned = Return(NilData, TRUE)
          /\ pc = "done" => returned = Return(data, FALSE))
    /\ [][pc # "failed"]_vars
    /\ [][pc' = "failed" => pc = "loop" /\ parseVars' = parseVars]_vars

\* Parse failed with an open round and a known player in its hands
C20_Witness ==
    /\ pc = "failed" /\ returned.err /\ returned.data = NilData
    /\ RoundOpen /\ data.Players # <<>>


\* ------------------------------------------------ cmd/demoview and maps ---
\* maps.metas: the maps with coordinate metadata (Scale in thousandths)
metas ==
    [m \in {"de_ancient", "de_anubis", "de_dust2", "de_inferno", "de_mirage",
            "de_nuke", "de_overpass", "de_train", "de_vertigo"} |->
        CASE m = "de_ancient"  -> [PosX |-> -2953, PosY |-> 2164, Scale |-> 5000]
          [] m = "de_anubis"   -> [PosX |-> -2796, PosY |-> 3328, Scale |-> 5220]
          [] m = "de_dust2"    -> [PosX |-> -2476, PosY |-> 3239, Scale |-> 4400]
          [] m = "de_inferno"  -> [PosX |-> -2087, PosY |-> 3870, Scale |-> 4900]
          [] m = "de_mirage"   -> [PosX |-> -3230, PosY |-> 1713, Scale |-> 5000]
          [] m = "de_nuke"     -> [PosX |-> -3453, PosY |-> 2887, Scale |-> 7000]
          [] m = "de_overpass" -> [PosX |-> -4831, PosY |-> 1781, Scale |-> 5200]
          [] m = "de_train"    -> [PosX |-> -2308, PosY |-> 2078, Scale |-> 4082]
          [] OTHER             -> [PosX |-> -3168, PosY |-> 1762, Scale |-> 4000]]

\* maps.lowers: ZMax of the multi-floor maps
lowers ==
    [m \in {"de_nuke", "de_vertigo", "de_train"} |->
        CASE m = "de_nuke"    -> -495
          [] m = "de_vertigo" -> 11700
          [] OTHER            -> -130]

\* the map names a decoded header can carry: one single-floor map, one
\* multi-floor map and one map the package does not know
HeaderMaps == {"de_mirage", "de_nuke", "de_cache"}

\* the overview images the build may have embedded for those maps
OverviewFiles == {"overviews/de_mirage.png", "overviews/de_nuke.png",
                  "overviews/de_nuke_lower.png", "overviews/de_cache.png"}

GetMeta(mapName) == mapName \in DOMAIN metas
GetLower(mapName) == mapName \in DOMAIN lowers

\* RadarPNG reads every file without looking for it
RadarPNGAny(mapName, fs) == TRUE

\* RadarPNG: TRUE when overviews/<map>.png is embedded
RadarPNG(mapName, fs) == ("overviews/" \o mapName \o ".png") \in fs

\* RadarPNGLower: nil, nil for a single-floor map, else the read of
\* overviews/<map>_lower.png
RadarPNGLower(mapName, fs) ==
    IF mapName \notin DOMAIN lowers
    THEN TRUE
    ELSE ("overviews/" \o mapName \o "_lower.png") \in fs

\* processDemoFile is called on one demo file
NewProcess(fs, bulk) ==
    [pc |-> "open", fs |-> fs, bulk |-> bulk, mapName |-> "",
     created |-> FALSE, written |-> FALSE, err |-> ""]

processReturn(err) == [main EXCEPT !.pc = "returned", !.err = err]

\* os.Open(demoFile)
processOpen(ok) ==
    /\ main.pc = "open"
    /\ main' = IF ok THEN [main EXCEPT !.pc = "parse"] ELSE processReturn("open")
    /\ UNCHANGED <<parserVars, viewer>>

\* demo.Parse(f): an error, or the match with its header's map name
processParse(ok, mapName) ==
    /\ main.pc = "parse"
    /\ main' = IF ok
               THEN [main EXCEPT !.pc = "meta", !.mapName = mapName]
               ELSE processReturn("parse")
    /\ UNCHANGED <<parserVars, viewer>>

\* maps.GetMeta(d.MapName)
processGetMeta ==
    /\ main.pc = "meta"
    /\ main' = IF GetMeta(main.mapName)
               THEN [main EXCEPT !.pc = "radar"]
               ELSE processReturn("unsupported map")
    /\ UNCHANGED <<parserVars, viewer>>

\* maps.RadarPNG(d.MapName)
processRadarPNG ==
    /\ main.pc = "radar"
    /\ main' = IF RadarPNG(main.mapName, main.fs)
               THEN [main EXCEPT !.pc = "lower"]
               ELSE processReturn("radar PNG")
    /\ UNCHANGED <<parserVars, viewer>>

\* maps.GetLower(d.MapName), then maps.RadarPNGLower for a multi-floor map
processLower ==
    /\ main.pc = "lower"
    /\ main' = IF GetLower(main.mapName) /\ ~RadarPNGLower(main.mapName, main.fs)
               THEN processReturn("lower radar PNG")
               ELSE [main EXCEPT !.pc = IF main.bulk THEN "stat" ELSE "create"]
    /\ UNCHANGED <<parserVars, viewer>>

\* bulk mode: os.Stat(demoFile), then uniqueOutPath names the output
processStat(ok) ==
    /\ main.pc = "stat"
    /\ main' = IF ok THEN [main EXCEPT !.pc = "create"] ELSE processReturn("stat")
    /\ UNCHANGED <<parserVars, viewer>>

\* os.Create(outputFile)
processCreate(ok) ==
    /\ main.pc = "create"
    /\ main' = IF ok
               THEN [main EXCEPT !.pc = "write", !.created = TRUE]
               ELSE processReturn("create output")
    /\ UNCHANGED <<parserVars, viewer>>

\* viewer.Write(out, ...), then return nil
processWrite(ok) ==
    /\ main.pc = "write"
    /\ main' = IF ok
               THEN [main EXCEPT !.pc = "returned", !.written = TRUE]
               ELSE processReturn("generate HTML")
    /\ UNCHANGED <<parserVars, viewer>>

InitProcess ==
    /\ InitParser(0)
    /\ \E fs \in SUBSET OverviewFiles, bulk \in BOOLEAN :
           main = NewProcess(fs, bulk)
    /\ viewer = Idle

NextProcess ==
    \/ \E ok \in BOOLEAN : processOpen(ok)
    \/ \E ok \in BOOLEAN, m \in HeaderMaps : processParse(ok, m)
    \/ processGetMeta
    \/ processRadarPNG
    \/ processLower
    \/ \E ok \in BOOLEAN : processStat(ok)
    \/ \E ok \in BOOLEAN : processCreate(ok)
    \/ \E ok \in BOOLEAN : processWrite(ok)

SpecProcess == InitProcess /\ [][NextProcess]_vars

\* the decoded map has no metadata, or no radar image of a level it has
LookupFailure ==
    /\ main.mapName # ""
    /\ \/ ~GetMeta(main.mapName)
       \/ ("overviews/" \o main.mapName \o ".png") \notin main.fs
       \/ /\ main.mapName \in DOMAIN lowers
          /\ ("overviews/" \o main.mapName \o "_lower.png") \notin main.fs

\* C21: when the decoded map has no coordinate metadata, or a recognized map
\* has no radar image, the output file is never created nor written, and
\* processDemoFile returns an error.
C21_LookupFailureBeforeCreate ==
    LookupFailure =>
        /\ ~main.created
        /\ ~main.written
        /\ main.pc \notin {"stat", "create", "write"}
        /\ main.pc = "returned" => main.err # ""

\* a recognized map without its radar image was refused
C21_Witness ==
    /\ main.pc = "returned"
    /\ main.err = "radar PNG"
    /\ GetMeta(main.mapName)
    /\ ~main.created


\* ------------------------------------------------------------- the shots ---
\* The shooting recording: rounds that start and end, and weapon-fired
\* events of every player at ticks half a sampling interval apart.
InitShots == InitWith(ShotEvents)

NextShots ==
    \/ ParseNextFrame(ShotSteps)
    \/ RoundStart(ShotRounds)
    \/ RoundEnd("Draw")
    \/ \E e \in FireEvents : WeaponFire(e)
    \/ \E ok \in BOOLEAN : SampleLoop(ok, ShotSteps)

SpecShots == InitShots /\ [][NextShots]_vars

\* a weapon-fired event of player s is dispatched in an open round
FireStep(s) ==
    /\ EventStep /\ lastEvent'.kind = "WeaponFire"
    /\ lastEvent'.arg.Shooter = s
    /\ RoundOpen

\* the open round holds a shot of player s
HasShot(s) ==
    /\ s \in DOMAIN pidx
    /\ \E i \in 1 .. Len(cur.Shots) : cur.Shots[i].PIdx = pidx[s]

\* C22: any two shots recorded for the same player in the same round are at
\* least SampleTicks ticks apart, and the first weapon-fired event of a
\* player in a round is recorded with the tick of the event.
C22_ShotsSampleTicksApart ==
    /\ [](\A r \in OutputRounds \cup (IF RoundOpen THEN {cur} ELSE {}) :
            \A i, j \in 1 .. Len(r.Shots) :
                (i < j /\ r.Shots[i].PIdx = r.Shots[j].PIdx)
                    => r.Shots[j].Tick - r.Shots[i].Tick >= SampleTicks)
    /\ [][\A s \in Ids :
            (FireStep(s) /\ ~HasShot(s))
                => cur'.Shots = Append(cur.Shots,
                                       [Tick |-> tick, PIdx |-> pidx'[s]])]_vars

\* the second round holds two shots of one player exactly a sampling
\* interval apart, the later one just recorded
C22_Witness ==
    /\ RoundOpen /\ roundNum = 2 /\ Len(cur.Shots) = 2
    /\ cur.Shots[1].PIdx = cur.Shots[2].PIdx
    /\ cur.Shots[2].Tick - cur.Shots[1].Tick = SampleTicks
    /\ lastEvent.kind = "WeaponFire"

\* C23: a weapon-fired event of a player with a recorded shot in the round is
\* appended only if strictly more than SampleTicks ticks have passed since
\* that shot: a weapon-fired event SampleTicks ticks or less after the
\* player's last recorded shot leaves the round's shots as they were.
C23_ShotOnlyAfterMoreThanSampleTicks ==
    [][\A s \in Ids :
         (/\ FireStep(s) /\ HasShot(s)
          /\ pidx[s] \in DOMAIN lastShot
          /\ tick - lastShot[pidx[s]] <= SampleTicks)
             => cur'.Shots = cur.Shots]_vars


\* -------------------------------------------------------------- the bomb ---
\* The bomb recording: rounds that start and end and the seven bomb events,
\* by two players or by none, at either site.
InitBomb == InitWith(BombActs)

BombActors == {e \in BombEvents : e.Player # 0}

NextBomb ==
    \/ ParseNextFrame(BombSteps)
    \/ RoundStart(BombRounds)
    \/ RoundEnd("Draw")
    \/ \E e \in BombActors, a \in {0, 1} : BombPlant(a, e)
    \/ \E e \in BombActors : BombDefuseStart(e)
    \/ \E e \in BombActors : BombDefused(e)
    \/ \E a \in {4, 6} : BombExplodeOrPickup(a)
    \/ \E e \in BombActors : BombDropped(e)
    \/ \E ok \in BOOLEAN : SampleLoop(ok, BombSteps)

SpecBomb == InitBomb /\ [][NextBomb]_vars

\* the bomb actions of a round
BombActions(r) == {r.Bomb[i] : i \in 1 .. Len(r.Bomb)}

\* C24: every bomb action recorded for a dropped (5) or picked-up (6) event
\* has an empty site label, whatever plant or defuse events came before it.
C24_DropAndPickupHaveNoSite ==
    \A r \in OutputRounds \cup (IF RoundOpen THEN {cur} ELSE {}) :
        \A b \in BombActions(r) : b.Action \in {5, 6} => b.Site = ""

\* a handler appends a bomb action to the open round
BombAdded ==
    /\ RoundOpen /\ cur' # NilRound
    /\ Len(cur'.Bomb) = Len(cur.Bomb) + 1

\* the player of the bomb event being dispatched
BombActor ==
    IF lastEvent'.kind = "Bomb" THEN lastEvent'.arg[2].Player
    ELSE lastEvent'.arg.Player

\* the bomb actions that set the bomb position: plant-begin, planted, dropped
Setters == {0, 1, 5}

\* C25: every bomb action carries the last-known bomb position: plant-begin,
\* planted and dropped set it from the acting player's position; defuse-begin,
\* defused, exploded and picked-up carry the position set by the most recent
\* of those, which nothing else changes.
C25_BombActionsCarryLastKnownPosition ==
    /\ [][BombAdded =>
            LET b == cur'.Bomb[Len(cur'.Bomb)]
            IN  IF b.Action \in Setters
                THEN /\ b.X = iround(PositionX(BombActor))
                     /\ b.Y = iround(PositionY(BombActor))
                     /\ bombX' = b.X /\ bombY' = b.Y
                ELSE /\ b.X = bombX /\ b.Y = bombY
                     /\ UNCHANGED <<bombX, bombY>>]_vars
    /\ [][~BombAdded => UNCHANGED <<bombX, bombY>>]_vars
    /\ [](RoundOpen =>
            \A i, j \in 1 .. Len(cur.Bomb) :
                (/\ i < j
                 /\ cur.Bomb[i].Action \in Setters
                 /\ \A k \in i + 1 .. j : cur.Bomb[k].Action \notin Setters)
                    => /\ cur.Bomb[j].X = cur.Bomb[i].X
                       /\ cur.Bomb[j].Y = cur.Bomb[i].Y)

\* a pick-up carries the position of the drop before it, which is not that
\* of the plant-begin before the drop
C25_Witness ==
    /\ RoundOpen /\ Len(cur.Bomb) = 3
    /\ cur.Bomb[1].Action = 0 /\ cur.Bomb[2].Action = 5
    /\ cur.Bomb[3].Action = 6
    /\ cur.Bomb[3].X = cur.Bomb[2].X /\ cur.Bomb[3].X # cur.Bomb[1].X


\* ------------------------------------------------------------ MarshalJSON ---
\* A JSON array is a tuple of its elements. The entities json.Marshal meets
\* in the ViewerData that viewer.Write encodes:
PlayerStates ==
    [Idx : 0 .. 1, Flags : {0, 6}, HP : {0, 87}, X : {-340, 512}, Y : {-17},
     Z : {64}, Yaw : {0, 359}]
Kills ==
    [Tick : {13056}, AtkIdx : 0 .. 1, VicIdx : 0 .. 1, Weapon : {"", "AK-47"},
     HS : BOOLEAN, AtkX : {512}, AtkY : {-340}, VicX : {-7}, VicY : {90},
     DMG : {0, 100}]
BombActionVals ==
    [Tick : {0, 64}, Action : 0 .. 6, X : {-1500}, Y : {15},
     Site : {"", "A", "B"}]
Grenades ==
    [StartTick : {0, 64}, EndTick : {0, 1216}, Type : 0 .. 5, X : {3},
     Y : {-4}]
Shots == [Tick : {16, 32}, PIdx : 0 .. 2]
PointLists == {<<>>, <<<<0, 512, -340>>>>, <<<<0, 512, -340>>, <<4, 520, -338>>>>}
GrenadeTrails == [Type : 0 .. 3, Points : PointLists]

PlayerStateMarshalJSON(ps) ==
    <<ps.Idx, ps.Flags, ps.HP, ps.X, ps.Y, ps.Z, ps.Yaw>>
KillMarshalJSON(k) ==
    LET hs == IF k.HS THEN 1 ELSE 0
    IN  <<k.Tick, k.AtkIdx, k.VicIdx, k.Weapon, hs, k.AtkX, k.AtkY, k.VicX,
          k.VicY, k.DMG>>
BombActionMarshalJSON(b) == <<b.Tick, b.Action, b.X, b.Y, b.Site>>
GrenadeMarshalJSON(g) == <<g.StartTick, g.EndTick, g.Type, g.X, g.Y>>
ShotMarshalJSON(s) == <<s.Tick, s.PIdx>>
GrenadeTrailMarshalJSON(gt) == <<gt.Type, gt.Points>>

\* json.Marshal is about to encode entity v of the named type
Encoding(kind, v) == [pc |-> "encode", kind |-> kind, val |-> v, out |-> <<>>]

\* json.Marshal calls the MarshalJSON of the entity's type
Encode(kind, out) ==
    /\ main.pc = "encode"
    /\ main.kind = kind
    /\ main' = [main EXCEPT !.pc = "encoded", !.out = out]
    /\ UNCHANGED <<parserVars, viewer>>

EncodePlayerState == Encode("PlayerState", PlayerStateMarshalJSON(main.val))
EncodeKill == Encode("Kill", KillMarshalJSON(main.val))
EncodeBombAction == Encode("BombAction", BombActionMarshalJSON(main.val))
EncodeGrenade == Encode("Grenade", GrenadeMarshalJSON(main.val))
EncodeShot == Encode("Shot", ShotMarshalJSON(main.val))
EncodeGrenadeTrail == Encode("GrenadeTrail", GrenadeTrailMarshalJSON(main.val))

InitEncode ==
    /\ InitParser(0)
    /\ viewer = Idle
    /\ \/ \E v \in PlayerStates : main = Encoding("PlayerState", v)
       \/ \E v \in Kills : main = Encoding("Kill", v)
       \/ \E v \in BombActionVals : main = Encoding("BombAction", v)
       \/ \E v \in Grenades : main = Encoding("Grenade", v)
       \/ \E v \in Shots : main = Encoding("Shot", v)
       \/ \E v \in GrenadeTrails : main = Encoding("GrenadeTrail", v)

NextEncode ==
    \/ EncodePlayerState
    \/ EncodeKill
    \/ EncodeBombAction
    \/ EncodeGrenade
    \/ EncodeShot
    \/ EncodeGrenadeTrail

SpecEncode == InitEncode /\ [][NextEncode]_vars

\* the entity of the named type has been encoded
Encoded(kind) == main.pc = "encoded" /\ main.kind = kind

\* the encoded array has n elements and the entity's fields at the positions
\* of the wire format, for the five entities other than the trail
PositionalArrays ==
    LET v == main.val
        a == main.out
    IN  /\ Encoded("PlayerState") =>
            /\ Len(a) = 7
            /\ a[1] = v.Idx /\ a[2] = v.Flags /\ a[3] = v.HP /\ a[4] = v.X
            /\ a[5] = v.Y /\ a[6] = v.Z /\ a[7] = v.Yaw
        /\ Encoded("Kill") =>
            /\ Len(a) = 10
            /\ a[1] = v.Tick /\ a[2] = v.AtkIdx /\ a[3] = v.VicIdx
            /\ a[4] = v.Weapon
            /\ a[5] \in {0, 1} /\ (a[5] = 1 <=> v.HS)
            /\ a[6] = v.AtkX /\ a[7] = v.AtkY /\ a[8] = v.VicX
            /\ a[9] = v.VicY /\ a[10] = v.DMG
        /\ Encoded("BombAction") =>
            /\ Len(a) = 5
            /\ a[1] = v.Tick /\ a[2] = v.Action /\ a[3] = v.X /\ a[4] = v.Y
            /\ a[5] = v.Site
        /\ Encoded("Grenade") =>
            /\ Len(a) = 5
            /\ a[1] = v.StartTick /\ a[2] = v.EndTick /\ a[3] = v.Type
            /\ a[4] = v.X /\ a[5] = v.Y
        /\ Encoded("Shot") =>
            /\ Len(a) = 2
            /\ a[1] = v.Tick /\ a[2] = v.PIdx

\* C26: every entity is emitted as a flat positional array in the field order
\* of the wire format: player state [idx,flags,hp,x,y,z,yaw], kill [tick,
\* atkIdx,vicIdx,weapon,hs,atkX,atkY,vicX,vicY,dmg] with hs 0 or 1, bomb action
\* [tick,action,x,y,site], grenade [startTick,endTick,type,x,y], shot
\* [tick,playerIdx] and trail [startTick,endTick,type,throwerIdx,points], so
\* that the element at a field's position is the field.
C26_FlatArraysInWireOrder ==
    /\ PositionalArrays
    /\ Encoded("GrenadeTrail") =>
        /\ Len(main.out) = 5
        /\ main.out[3] = main.val.Type
        /\ main.out[5] = main.val.Points


\* ------------------------------------------------- the viewer's viewport ---
\* The script of the HTML viewer keeps zoom, panX and panY. Lengths are whole
\* canvas pixels; the canvas is square, as the radar image drawn on it.
Abs(x) == IF x < 0 THEN -x ELSE x
MathMax(a, b) == IF a >= b THEN a ELSE b
MathMin(a, b) == IF a <= b THEN a ELSE b

\* canvas.width, which is canvas.height
CanvasSize == 2 * CanvasHalf

ZoomLevels == {2 ^ k : k \in 0 .. MaxZoomExp}   \* the values newZoom takes
CursorAt == 0 .. CanvasSize                     \* e.offsetX, e.offsetY
DragBy == -MaxDrag .. MaxDrag                   \* movement of one drag

\* a gesture as the handlers see it: the cursor (or the movement of a drag)
\* and the zoom and pan it found
Gesture(kind, x, y) ==
    [kind |-> kind, x |-> x, y |-> y,
     zoom |-> viewer.zoom, panX |-> viewer.panX, panY |-> viewer.panY]

\* the page has loaded: zoom 1, pan 0
InitView ==
    [pc |-> "view", zoom |-> 1, panX |-> 0, panY |-> 0,
     last |-> [kind |-> "load", x |-> 0, y |-> 0, zoom |-> 1, panX |-> 0,
               panY |-> 0]]

\* clampPan with no limit on the pan
clampPanOff(zoom, pan) == pan

\* clampPan, for one axis
clampPan(zoom, pan) ==
    LET maxPan == CanvasHalf * (zoom - 1)
    IN  MathMax(-maxPan, MathMin(maxPan, pan))

\* the wheel handler keeping the pan it found
zoomPanKept(m, pan, zoom, newZoom) == pan

\* the pan the wheel handler computes for one axis, cursor at m
zoomPan(m, pan, zoom, newZoom) ==
    m - ((m - CanvasHalf - pan) * newZoom) \div zoom - CanvasHalf

\* the scroll wheel handler
Wheel(mx, my, newZoom) ==
    /\ viewer.pc = "view"
    /\ viewer' = [viewer EXCEPT
           !.panX = clampPan(newZoom, zoomPan(mx, viewer.panX, viewer.zoom,
                                               newZoom)),
           !.panY = clampPan(newZoom, zoomPan(my, viewer.panY, viewer.zoom,
                                               newZoom)),
           !.zoom = newZoom,
           !.last = Gesture("wheel", mx, my)]
    /\ UNCHANGED <<parserVars, main>>

\* click and drag: the pan follows the mouse and is clamped
Drag(dx, dy) ==
    /\ viewer.pc = "view"
    /\ viewer' = [viewer EXCEPT
           !.panX = clampPan(viewer.zoom, viewer.panX + dx),
           !.panY = clampPan(viewer.zoom, viewer.panY + dy),
           !.last = Gesture("drag", dx, dy)]
    /\ UNCHANGED <<parserVars, main>>

\* double-click
DoubleClick ==
    /\ viewer.pc = "view"
    /\ viewer' = [viewer EXCEPT !.zoom = 1, !.panX = 0, !.panY = 0,
                                !.last = Gesture("dblclick", 0, 0)]
    /\ UNCHANGED <<parserVars, main>>

InitViewport ==
    /\ InitParser(0)
    /\ main = Idle
    /\ viewer = InitView

NextViewport ==
    \/ \E mx, my \in CursorAt, z \in ZoomLevels : Wheel(mx, my, z)
    \/ \E dx, dy \in DragBy : Drag(dx, dy)
    \/ DoubleClick

SpecViewport == InitViewport /\ [][NextViewport]_vars

\* where w2c draws, at the zoom and pan of now, the point that was under the
\* cursor m at zoom z0 and pan p0, less m: w2c draws the point b of the
\* unzoomed canvas at (b - CanvasHalf) * zoom + CanvasHalf + pan, and the
\* point under m was b = (m - CanvasHalf - p0) / z0 + CanvasHalf
Drift(m, z0, p0, zoom, pan) ==
    ((m - CanvasHalf - p0) * zoom) \div z0 + CanvasHalf + pan - m

\* the last gesture was a wheel gesture and the point under its cursor is
\* under it still, within a pixel
Anchored ==
    /\ Abs(Drift(viewer.last.x, viewer.last.zoom, viewer.last.panX,
                 viewer.zoom, viewer.panX)) <= 1
    /\ Abs(Drift(viewer.last.y, viewer.last.zoom, viewer.last.panY,
                 viewer.zoom, viewer.panY)) <= 1

\* C27: after a zoom gesture at screen point P (pan updated by the wheel
\* handler and then clamped) the world point that was under P is under P
\* again, within rounding, for every starting zoom, pan and cursor position.
C27_ZoomKeepsPointUnderCursor ==
    viewer.last.kind = "wheel" => Anchored

\* C27 as the viewer has it: the point under the cursor stays under it when
\* the gesture zooms in or keeps the zoom; a zoom-out is anchored only when
\* the clamp leaves the computed pan as it is.
C27_ZoomInKeepsPointUnderCursor ==
    /\ (viewer.last.kind = "wheel" /\ viewer.zoom >= viewer.last.zoom)
           => Anchored
    /\ (/\ viewer.last.kind = "wheel"
        /\ viewer.panX = zoomPan(viewer.last.x, viewer.last.panX,
                                 viewer.last.zoom, viewer.zoom)
        /\ viewer.panY = zoomPan(viewer.last.y, viewer.last.panY,
                                 viewer.last.zoom, viewer.zoom))
           => Anchored

\* a zoom-in at a corner of the canvas from a panned view moved the pan
C27_Witness ==
    /\ viewer.last.kind = "wheel" /\ viewer.last.zoom = 2 /\ viewer.zoom = 4
    /\ viewer.last.x = 0 /\ viewer.last.y = CanvasSize
    /\ viewer.last.panX # 0 /\ viewer.panX # viewer.last.panX
    /\ Anchored

\* C28: after any sequence of zoom, drag and double-click gestures the pan is
\* within (canvas size / 2) * (zoom - 1) of zero on both axes, and a
\* double-click leaves zoom 1 and pan (0, 0).
C28_PanClamped ==
    /\ Abs(viewer.panX) <= CanvasHalf * (viewer.zoom - 1)
    /\ Abs(viewer.panY) <= CanvasHalf * (viewer.zoom - 1)
    /\ viewer.last.kind = "dblclick" =>
           viewer.zoom = 1 /\ viewer.panX = 0 /\ viewer.panY = 0

\* a double-click reset a view zoomed in and panned to its limit
C28_Witness ==
    /\ viewer.last.kind = "dblclick"
    /\ viewer.last.zoom > 1
    /\ viewer.last.panX = CanvasHalf * (viewer.last.zoom - 1)
    /\ viewer.zoom = 1 /\ viewer.panX = 0


\* -------------------------------------------------- yaw interpolation ------
\* The renderer draws a player between the frames floor(framePos) and
\* ceil(framePos) with t = framePos - floor(framePos). An interpolated angle
\* is carried as its numerator over YawFrac.
YawVals == {0, 10, 90, 170, 180, 190, 270, 350, 359, 360}   \* PS_YAW of a frame

\* the difference of the two yaws taken as it is
yawDeltaPlain(yaw0, yaw1) == yaw1 - yaw0

\* the shortest arc from yaw0 to yaw1: the difference brought into -180 .. 180
yawDelta(yaw0, yaw1) ==
    LET d == yaw1 - yaw0
    IN  IF d > 180 THEN d - 360 ELSE IF d < -180 THEN d + 360 ELSE d

\* yaw0 + delta * t, for t = k / YawFrac
lerpYaw(yaw0, yaw1, k) == yaw0 * YawFrac + yawDelta(yaw0, yaw1) * k

\* the renderer is about to draw a player between two frames
Drawing(yaw0, yaw1, k) ==
    [pc |-> "draw", yaw0 |-> yaw0, yaw1 |-> yaw1, k |-> k, yaw |-> 0]

\* the renderer interpolates the yaw
InterpolateYaw ==
    /\ viewer.pc = "draw"
    /\ viewer' = [viewer EXCEPT
                      !.pc = "drawn",
                      !.yaw = lerpYaw(viewer.yaw0, viewer.yaw1, viewer.k)]
    /\ UNCHANGED <<parserVars, main>>

InitYaw ==
    /\ InitParser(0)
    /\ main = Idle
    /\ \E yaw0, yaw1 \in YawVals, k \in 0 .. YawFrac :
           viewer = Drawing(yaw0, yaw1, k)

NextYaw == InterpolateYaw

SpecYaw == InitYaw /\ [][NextYaw]_vars

\* C29: the interpolated yaw takes the shortest arc: between a frame at 350
\* degrees and the next at 10 degrees every value lies on the 20-degree arc
\* through 360/0 and none passes through 180; in general the interpolated yaw
\* is never more than 180 degrees from the yaw of either frame, it starts at
\* the first frame's yaw and ends at the second's.
C29_YawTakesShortestArc ==
    viewer.pc = "drawn" =>
        LET y == viewer.yaw
            a == viewer.yaw0 * YawFrac
            d == yawDelta(viewer.yaw0, viewer.yaw1) * YawFrac
        IN  /\ (viewer.yaw0 = 350 /\ viewer.yaw1 = 10) =>
                   (350 * YawFrac <= y /\ y <= 370 * YawFrac)
            /\ Abs(y - a) <= 180 * YawFrac
            /\ Abs(a + d - y) <= 180 * YawFrac
            /\ Abs(y - a) + Abs(a + d - y) = Abs(d)
            /\ (a + d - viewer.yaw1 * YawFrac) % (360 * YawFrac) = 0
            /\ viewer.k = 0 => y = a
            /\ viewer.k = YawFrac => y = a + d

\* half-way between a frame at 350 degrees and the next at 10 the yaw is 360
C29_Witness ==
    /\ viewer.pc = "drawn"
    /\ viewer.yaw0 = 350 /\ viewer.yaw1 = 10 /\ 2 * viewer.k = YawFrac
    /\ viewer.yaw = 360 * YawFrac


\* ------------------------------------------------------------ the kill feed -
\* The round being played holds nk kills, nb bomb actions and ng grenades,
\* each list in the order of its ticks as the parser appends them: a kill
\* every decoder step, a bomb action every step from the second one on, a
\* grenade every other step. An entry of the feed is {t, type, data}, data
\* being the position in its list.
RoundKills(nk) == [i \in 1 .. nk |-> [t |-> TickStep * i, type |-> "kill", data |-> i]]
RoundBombs(nb) ==
    [i \in 1 .. nb |-> [t |-> TickStep * (i + 1), type |-> "bomb", data |-> i]]
RoundNades(ng) ==
    [i \in 1 .. ng |-> [t |-> 2 * TickStep * i, type |-> "nade", data |-> i]]

RECURSIVE Insert(_, _)
\* ev put into the list sorted by t, after the entries with the same t
Insert(sorted, ev) ==
    IF sorted = <<>> THEN <<ev>>
    ELSE IF ev.t < Head(sorted).t THEN <<ev>> \o sorted
    ELSE <<Head(sorted)>> \o Insert(Tail(sorted), ev)

RECURSIVE SortByTick(_)
\* .sort((a, b) => a.t - b.t), a stable sort
SortByTick(s) ==
    IF s = <<>> THEN <<>>
    ELSE Insert(SortByTick(SubSeq(s, 1, Len(s) - 1)), s[Len(s)])

\* .filter(ev => ev.t <= currentTick)
Filter(s, currentTick) == SelectSeq(s, LAMBDA ev : ev.t <= currentTick)

\* .slice(-KILL_FEED_MAX)
Slice(s) ==
    IF Len(s) <= KILL_FEED_MAX THEN s
    ELSE SubSeq(s, Len(s) - KILL_FEED_MAX + 1, Len(s))

\* merged without the filter on the current tick
mergedUnfiltered(kills, bombEvts, nadeEvts, currentTick) ==
    Slice(SortByTick(kills \o bombEvts \o nadeEvts))

\* the merged list of the feed
merged(kills, bombEvts, nadeEvts, currentTick) ==
    Slice(Filter(SortByTick(kills \o bombEvts \o nadeEvts), currentTick))

\* the signature of a list of entries: what identifies each of them
Signature(feed) == [i \in 1 .. Len(feed) |-> <<feed[i].type, feed[i].data>>]

\* the page has loaded a round: nothing is drawn yet
Playing(nk, nb, ng) ==
    [pc |-> "loaded", kills |-> RoundKills(nk), bombEvts |-> RoundBombs(nb),
     nadeEvts |-> RoundNades(ng), currentTick |-> 0, feed |-> <<>>,
     sig |-> <<>>, rendered |-> FALSE, before |-> <<>>]

\* one frame of the render loop at playback position currentTick: the feed
\* is rebuilt in the page only if the signature of the merged list differs
\* from that of the list shown
RenderFeed(currentTick) ==
    /\ viewer.pc \in {"loaded", "play"}
    /\ LET now == merged(viewer.kills, viewer.bombEvts, viewer.nadeEvts,
                         currentTick)
           changed == Signature(now) # viewer.sig
       IN  viewer' = [viewer EXCEPT
                          !.pc = "play",
                          !.currentTick = currentTick,
                          !.feed = IF changed THEN now ELSE @,
                          !.sig = IF changed THEN Signature(now) ELSE @,
                          !.rendered = changed,
                          !.before = viewer.feed]
    /\ UNCHANGED <<parserVars, main>>

InitFeed ==
    /\ InitParser(0)
    /\ main = Idle
    /\ \E nk \in 0 .. FeedKills, nb \in 0 .. FeedBombs, ng \in 0 .. FeedNades :
           viewer = Playing(nk, nb, ng)

NextFeed == \E k \in 0 .. FeedSteps : RenderFeed(TickStep * k)

SpecFeed == InitFeed /\ [][NextFeed]_vars

\* the events of the round being played
RoundEvents ==
    {viewer.kills[i] : i \in 1 .. Len(viewer.kills)}
        \cup {viewer.bombEvts[i] : i \in 1 .. Len(viewer.bombEvts)}
        \cup {viewer.nadeEvts[i] : i \in 1 .. Len(viewer.nadeEvts)}
\* those of them that have happened at the current tick
PastEvents == {ev \in RoundEvents : ev.t <= viewer.currentTick}
\* the entries the feed shows
Shown == {viewer.feed[i] : i \in 1 .. Len(viewer.feed)}

\* C30: at every playback position the feed is the last 8 (at most) entries,
\* in non-decreasing tick order, of the merged kill, bomb and grenade events
\* of the round whose tick is at most the current tick: it shows no event of
\* the future, and it was re-rendered only if the visible list changed.
C30_FeedShowsLastEightPastEvents ==
    viewer.pc = "play" =>
        /\ Shown \subseteq PastEvents
        /\ Cardinality(Shown) = Len(viewer.feed)
        /\ Len(viewer.feed) = MathMin(KILL_FEED_MAX, Cardinality(PastEvents))
        /\ \A i \in 1 .. Len(viewer.feed) - 1 :
               viewer.feed[i].t <= viewer.feed[i + 1].t
        /\ \A ev \in PastEvents \ Shown : \A s \in Shown : ev.t <= s.t
        /\ viewer.rendered => viewer.feed # viewer.before

\* the round has more than eight past events and events still to come, and
\* the frame showed the feed it found
C30_Witness ==
    /\ viewer.pc = "play"
    /\ Cardinality(PastEvents) > KILL_FEED_MAX
    /\ PastEvents # RoundEvents
    /\ Len(viewer.feed) = KILL_FEED_MAX
    /\ ~viewer.rendered /\ viewer.before = viewer.feed


\* ------------------------------------------------- types of the output -----
\* a SmokeStart event is dispatched in an open round
SmokeStep == EventStep /\ lastEvent'.kind = "SmokeStart" /\ RoundOpen

\* the bomb actions of the open round and of the output rounds
AllBombActions ==
    UNION {{r.Bomb[i] : i \in 1 .. Len(r.Bomb)} :
               r \in OutputRounds \cup (IF RoundOpen THEN {cur} ELSE {})}

\* C31: the smoke started by a CT thrower is recorded with type 4, by a T
\* thrower with type 5, by an unknown thrower with type 0; every Grenade of
\* the recording has a type in 0..5 and every BombAction an action in 0..6.
C31_SmokeTypeFromThrowerSide ==
    /\ [][SmokeStep =>
            LET thrower == lastEvent'.arg.Thrower
                g == cur'.Grenades[Len(cur'.Grenades)]
            IN  /\ Len(cur'.Grenades) = Len(cur.Grenades) + 1
                /\ thrower = Nil => g.Type = 0
                /\ (thrower # Nil /\ TeamOf(thrower) = "CT") => g.Type = 4
                /\ (thrower # Nil /\ TeamOf(thrower) = "T") => g.Type = 5]_vars
    /\ [](\A g \in AllGrenades : g.Type \in 0 .. 5)
    /\ [](\A b \in AllBombActions : b.Action \in 0 .. 6)

\* the open round holds the smoke a CT player threw
C31_Witness ==
    /\ RoundOpen /\ lastEvent.kind = "SmokeStart"
    /\ lastEvent.arg.Thrower # Nil /\ TeamOf(lastEvent.arg.Thrower) = "CT"
    /\ Len(cur.Grenades) = 1 /\ cur.Grenades[1].Type = 4


\* ---------------------------------------------------------- uniqueOutPath ---
\* filepath.Join(outDir, base+".html") for n = 1 and
\* filepath.Join(outDir, fmt.Sprintf("%s_%d.html", base, n)) for n >= 2
OutPath(n) ==
    IF n = 1 THEN "out/2006-01-02_de_mirage.html"
    ELSE "out/2006-01-02_de_mirage_" \o FormatUint(n) \o ".html"

\* the files outDir may hold when uniqueOutPath is called
OutFiles == {OutPath(n) : n \in 1 .. MaxFiles}

\* os.Stat finding no file at all
osStatNothing(files, p) == FALSE

\* os.Stat(p): TRUE when it returns no error, which is when the file exists
osStat(files, p) == p \in files

\* uniqueOutPath is called in a directory holding files
Choosing(files) ==
    [pc |-> "first", files |-> files, n |-> 1, p |-> ""]

\* the first os.Stat of uniqueOutPath
uniqueFirst ==
    /\ main.pc = "first"
    /\ main' = IF osStat(main.files, OutPath(1))
               THEN [main EXCEPT !.pc = "loop", !.n = 2]
               ELSE [main EXCEPT !.pc = "chosen", !.p = OutPath(1)]
    /\ UNCHANGED <<parserVars, viewer>>

\* one turn of the for loop of uniqueOutPath
uniqueLoop ==
    /\ main.pc = "loop"
    /\ main' = IF osStat(main.files, OutPath(main.n))
               THEN [main EXCEPT !.n = @ + 1]
               ELSE [main EXCEPT !.pc = "chosen", !.p = OutPath(main.n)]
    /\ UNCHANGED <<parserVars, viewer>>

InitUnique ==
    /\ InitParser(0)
    /\ viewer = Idle
    /\ \E files \in SUBSET OutFiles : main = Choosing(files)

NextUnique == uniqueFirst \/ uniqueLoop

\* the function runs on: a call that can take a step takes it
SpecUnique == InitUnique /\ [][NextUnique]_vars /\ WF_vars(NextUnique)

\* C32: the path uniqueOutPath returns names no file that exists when it is
\* chosen: it is outDir/base.html if that does not exist, otherwise
\* outDir/base_n.html for the smallest n >= 2 that does not exist; and with
\* finitely many such files the function returns.
C32_UniqueOutPathIsFree ==
    /\ [](main.pc = "chosen" =>
            /\ main.p \notin main.files
            /\ \E n \in 1 .. MaxFiles + 1 :
                   /\ main.p = OutPath(n)
                   /\ \A k \in 1 .. n - 1 : OutPath(k) \in main.files)
    /\ <>(main.pc = "chosen")

\* base.html and base_2.html exist, base_3.html does not, base_4.html does:
\* base_3.html was chosen
C32_Witness ==
    /\ main.pc = "chosen" /\ main.p = OutPath(3)
    /\ OutPath(4) \in main.files


\* ------------------------------------------------------- player indices ----
\* the player indices a round stores in its frames, kills, shots and damage
\* entries
StoredIdxs(r) ==
    UNION {{r.Frames[i].Players[j].Idx : j \in 1 .. Len(r.Frames[i].Players)} :
               i \in 1 .. Len(r.Frames)}
        \cup {r.Kills[i].AtkIdx : i \in 1 .. Len(r.Kills)}
        \cup {r.Kills[i].VicIdx : i \in 1 .. Len(r.Kills)}
        \cup {r.Shots[i].PIdx : i \in 1 .. Len(r.Shots)}
        \cup {r.Dmg[i][1] : i \in 1 .. Len(r.Dmg)}

\* C33: the stat list is as long as the player list, and every player index
\* stored in a frame, kill, shot or damage entry of the open round or of an
\* output round is an index into the player list.
C33_StatsParallelAndIndicesValid ==
    /\ Len(data.Stats) = Len(data.Players)
    /\ \A r \in OutputRounds \cup (IF RoundOpen THEN {cur} ELSE {}) :
           StoredIdxs(r) \subseteq 0 .. Len(data.Players) - 1

\* a kill between two players who were in no frame added both to the lists
C33_Witness ==
    /\ RoundOpen /\ lastEvent.kind = "Kill"
    /\ Len(cur.Kills) = 1 /\ cur.Kills[1].AtkIdx # cur.Kills[1].VicIdx
    /\ Len(data.Players) = 2 /\ Len(data.Stats) = 2


\* ------------------------------------------------------- emitted rounds ----
\* The late-expiry recording: the long recording with one human player, played by
\* the expiry-driven revision, in which a smoke that started in a round can
\* expire after the round-end that emitted the round, or in the next round.
InitLate == InitWith(EarlyEvents)

NextLate ==
    \/ ParseNextFrame(LongSteps)
    \/ Connect(1)
    \/ RoundStart(ShortRounds)
    \/ RoundFreezetimeEnd
    \/ RoundEnd("CT")
    \/ \E e \in EntityEvents : SmokeStartPending(e)
    \/ \E e \in EntityEvents : SmokeExpired(e)
    \/ \E ok \in BOOLEAN : SampleLoopPending(ok, LongSteps, FALSE)

SpecLate == InitLate /\ [][NextLate]_vars

\* C34: a round of data.Rounds is never changed by a later step, whether a
\* late SmokeExpired or an event of a later round; the list only grows at its
\* end.
C34_EmittedRoundNeverChanges ==
    [][/\ Len(data'.Rounds) >= Len(data.Rounds)
       /\ \A i \in 1 .. Len(data.Rounds) : data'.Rounds[i] = data.Rounds[i]]_vars

\* a smoke of the emitted round expired after its round-end, no round being
\* open: the only two events were its start and its expiry
C34_Witness ==
    /\ Len(data.Rounds) = 1 /\ ~RoundOpen
    /\ lastEvent.kind = "SmokeExpired" /\ events = EarlyEvents - 2
    /\ activeSmokes = << >> /\ pendingInfernos = << >>
    /\ data.Rounds[1].Grenades = <<>>


\* ---------------------------------------------------- end of the stream ----
\* The recording that ends in a round: one human player, one round, long
\* enough for the open round to hold MinFrames frames when the stream ends.
InitOpenEnd == InitWith(0)

NextOpenEnd ==
    \/ ParseNextFrame(OpenSteps)
    \/ Connect(1)
    \/ RoundStart(LongRounds)
    \/ RoundFreezetimeEnd
    \/ RoundEnd("CT")
    \/ \E ok \in BOOLEAN : SampleLoop(ok, OpenSteps)

SpecOpenEnd == InitOpenEnd /\ [][NextOpenEnd]_vars

\* the rounds-played count of the player with index idx differs between the
\* stat lists a and b, a player b does not hold yet counting zero
CreditDiffers(a, b, idx) ==
    a[idx].R # (IF idx <= Len(b) THEN b[idx].R ELSE 0)

\* C35: only a round-end adds a round to the output or a round played to a
\* player, and the data Parse returns when the stream ends in an open round
\* holds neither that round nor a round played for anyone.
C35_OnlyRoundEndEmits ==
    /\ [][(\/ data'.Rounds # data.Rounds
           \/ \E i \in 1 .. Len(data'.Stats) :
                  CreditDiffers(data'.Stats, data.Stats, i))
          => RoundEndStep]_vars
    /\ [](returned.returned /\ ~returned.err /\ RoundOpen /\ data.Rounds = <<>>
          => /\ returned.data.Rounds = <<>>
             /\ \A i \in 1 .. Len(returned.data.Stats) :
                    returned.data.Stats[i].R = 0)

\* the stream ended in the first round, which held MinFrames frames of a
\* player: Parse returned no round
C35_Witness ==
    /\ returned.returned /\ ~returned.err /\ RoundOpen
    /\ Len(cur.Frames) >= MinFrames
    /\ returned.data.Rounds = <<>>
    /\ Len(returned.data.Stats) = 1 /\ returned.data.Stats[1].R = 0


\* ------------------------------------------------------ replaced rounds ----
\* The replacement recording: the long recording with one human player and
\* two round-starts, every round-end won by the counter-terrorists, so that a
\* second round with no round won before it has replaced the first.
InitReplace == InitWith(0)

NextReplace ==
    \/ ParseNextFrame(LongSteps)
    \/ Connect(1)
    \/ RoundStart(ShortRounds)
    \/ RoundFreezetimeEnd
    \/ RoundEnd("CT")
    \/ \E ok \in BOOLEAN : SampleLoop(ok, LongSteps)

SpecReplace == InitReplace /\ [][NextReplace]_vars

\* a round-start outside warmup is dispatched while a round is open
ReplaceStep == RoundOpen /\ roundNum' # roundNum

\* C36: a round-start that finds a round open puts a new round, with the next
\* ordinal, in its place and changes neither the output nor the score.  The
\* open round is always the one started last; a step that emits a round emits
\* the open one, and every output round is older than the open round: the
\* replaced round, whose ordinal is below that of every later open round, is
\* never emitted.  The score changes only at a round-end.
C36_ReplacedRoundIsDropped ==
    /\ [][ReplaceStep =>
              /\ cur' = NewRound(cur.Num + 1, ctScore, tScore)
              /\ data' = data /\ ctScore' = ctScore /\ tScore' = tScore]_vars
    /\ [][data'.Rounds # data.Rounds =>
              /\ RoundEndStep
              /\ Len(data'.Rounds) = Len(data.Rounds) + 1
              /\ data'.Rounds[Len(data'.Rounds)].Num = cur.Num]_vars
    /\ [][ctScore' # ctScore \/ tScore' # tScore => RoundEndStep]_vars
    /\ [](RoundOpen => /\ cur.Num = roundNum
                       /\ \A r \in OutputRounds : r.Num < cur.Num)

\* the second round was emitted and is the only round won, so the first
\* round was replaced while it was open: it is not in the output and the
\* score counts one round
C36_Witness ==
    /\ Len(data.Rounds) = 1 /\ data.Rounds[1].Num = 2
    /\ roundLog.CT = 1 /\ ctScore = 1 /\ tScore = 0


\* ------------------------------------------------------- round ordinals ----
\* The ordinal recording: the replacement recording with a third round-start,
\* so that a round can be replaced or discarded between two emitted rounds.
NextOrdinals ==
    \/ ParseNextFrame(LongSteps)
    \/ Connect(1)
    \/ RoundStart(MatchRounds)
    \/ RoundFreezetimeEnd
    \/ RoundEnd("CT")
    \/ \E ok \in BOOLEAN : SampleLoop(ok, LongSteps)

SpecOrdinals == InitReplace /\ [][NextOrdinals]_vars

\* C37: the ordinals of the output rounds are at least 1 and strictly
\* increasing in list order.
C37_OrdinalsStrictlyIncreasing ==
    /\ \A i \in 1 .. Len(data.Rounds) : data.Rounds[i].Num >= 1
    /\ \A i \in 1 .. Len(data.Rounds) - 1 :
           data.Rounds[i].Num < data.Rounds[i + 1].Num

\* the first and the third round are in the output: the second consumed its
\* ordinal and left a gap
C37_Witness ==
    /\ Len(data.Rounds) = 2
    /\ data.Rounds[1].Num = 1 /\ data.Rounds[2].Num = 3


\* ---------------------------------------------------------- kill totals ----
\* The kill recording: three kills with a rifle, by a headshot or not, of any
\* player by any player or by none, in rounds that hold no frame and so are
\* all discarded.
ArmedKills == {e \in KillEvents : e.Weapon = "AK-47"}

NextKills ==
    \/ ParseNextFrame(DamageSteps)
    \/ RoundStart(ShortRounds)
    \/ RoundEnd("CT")
    \/ \E e \in ArmedKills : Kill(e)

SpecKills == InitDamage /\ [][NextKills]_vars

RECURSIVE SumK(_)
\* the kills of all players
SumK(stats) == IF stats = <<>> THEN 0 ELSE Head(stats).K + SumK(Tail(stats))

RECURSIVE SumD(_)
\* the deaths of all players
SumD(stats) == IF stats = <<>> THEN 0 ELSE Head(stats).D + SumD(Tail(stats))

\* the Kill handler runs past its guard: a round is open and the event names
\* both players
KillAccepted ==
    /\ EventStep /\ lastEvent'.kind = "Kill"
    /\ RoundOpen /\ ~MissingPlayer(lastEvent'.arg)

\* C38: no player has more headshot kills than kills, the kills of all players
\* sum to the deaths of all players, and both sums count the accepted kill
\* events: an accepted kill adds one to each, any other step leaves them, and
\* so does the round-end that discards the round of the kill.
C38_KillTotalsAgree ==
    /\ [](\A i \in 1 .. Len(data.Stats) : data.Stats[i].HS <= data.Stats[i].K)
    /\ [](SumK(data.Stats) = SumD(data.Stats))
    /\ [][SumK(data'.Stats) =
              SumK(data.Stats) + (IF KillAccepted THEN 1 ELSE 0)]_vars

\* the round of a headshot and of a kill of a player by himself has been
\* discarded: both kills are in the totals
C38_Witness ==
    /\ ~RoundOpen /\ data.Rounds = <<>> /\ events = MaxDamage - 2
    /\ SumK(data.Stats) = 2 /\ SumD(data.Stats) = 2
    /\ \E i \in 1 .. Len(data.Stats) :
           data.Stats[i].HS = 1 /\ data.Stats[i].K = 2 /\ data.Stats[i].D = 1


\* ------------------------------------------------------- damage records ----
RECURSIVE DmgOf(_, _)
\* the damage the entries of a round's damage list hold for the player idx
DmgOf(dmg, idx) ==
    IF dmg = <<>> THEN 0
    ELSE (IF Head(dmg)[1] = idx THEN Head(dmg)[2] ELSE 0) + DmgOf(Tail(dmg), idx)

RECURSIVE RowSum(_)
\* the damage a row of roundVicDmg holds, over all victims
RowSum(row) ==
    IF DOMAIN row = {} THEN 0
    ELSE LET v == CHOOSE x \in DOMAIN row : TRUE
         IN  row[v] + RowSum([x \in DOMAIN row \ {v} |-> row[x]])

\* the match-wide damage of the player with index idx - 1, zero for a player
\* the stat list does not hold yet
StatDmg(stats, idx) == IF idx <= Len(stats) THEN stats[idx].DMG ELSE 0

\* what a step adds to the damage list of the round that stays open for the
\* player with index idx - 1
DmgLogged(idx) ==
    IF RoundOpen /\ cur' # NilRound /\ cur'.Num = cur.Num
    THEN DmgOf(cur'.Dmg, idx - 1) - DmgOf(cur.Dmg, idx - 1) ELSE 0

\* C39: in the open round the damage list and the attacker-victim map hold
\* the same total for every attacker, and every step adds to a player's
\* match-wide damage what it adds to the damage list of the open round for the
\* player, so that the match-wide damage is the sum of the player's entries
\* over all rounds opened so far.
C39_DamageRecordsAgree ==
    /\ [](RoundOpen =>
             \A idx \in 0 .. Len(data.Players) - 1 :
                 DmgOf(cur.Dmg, idx) =
                     RowSum(MapGet(roundVicDmg, idx, EmptyMap)))
    /\ [][\A i \in 1 .. Len(data'.Stats) :
              StatDmg(data'.Stats, i) = StatDmg(data.Stats, i) + DmgLogged(i)]_vars

\* the first player hurt another in the first round and twice in the second:
\* the list and the map of the second round hold the two amounts, the
\* match-wide damage all three
C39_Witness ==
    /\ RoundOpen /\ cur.Num = 2 /\ lastEvent.kind = "PlayerHurt"
    /\ Len(cur.Dmg) = 2 /\ DmgOf(cur.Dmg, 0) = 100
    /\ RowSum(MapGet(roundVicDmg, 0, EmptyMap)) = 100
    /\ data.Stats[1].DMG = 130


\* ------------------------------------------------------ in-round flag ------
\* the sampling loop appends a frame to the open round
LoopCapture ==
    /\ pc = "parse" /\ pc' \in {"loop", "done"}
    /\ RoundOpen /\ cur' # NilRound /\ Len(cur'.Frames) > Len(cur.Frames)

\* C40: inRound is true exactly when cur holds a round, and the sampling loop
\* captures a frame only with both, in the round a round-start outside warmup
\* opened and no round-end has closed.
C40_InRoundIffRoundOpen ==
    /\ [](inRound <=> cur # NilRound)
    /\ [][pc = "parse" /\ pc' \in {"loop", "done"} /\ cur' # cur
             => inRound /\ LoopCapture /\ roundLog.open]_vars

\* the loop has run at a sampling tick after the round-end that emitted the
\* round: flag and accumulator are both clear
C40_Witness ==
    /\ ~inRound /\ ~RoundOpen /\ Len(data.Rounds) = 1
    /\ pc = "loop" /\ tick > roundLog.endTick /\ tick % SampleTicks = 0

====
